---- MODULE Spec2Model ----
(***************************************************************************)
(* Model of s3_vectors_rag_hands_on: the teardown orchestrator             *)
(* (cleanup.py), the provisioner (infra.py) and the ingestion job poller   *)
(* (sync.py), run against a model of the external services they call.      *)
(*                                                                         *)
(* Every boto3 request is one step.  The service answers a request either  *)
(* truthfully (from the state of the resources) or with an injected fault: *)
(* "other" (any unclassified service error), "conflict" (operation in      *)
(* progress) or "notfound" (the resource was removed by another actor just *)
(* before the request).                                                    *)
(***************************************************************************)
EXTENDS Integers, Sequences, FiniteSets, TLC

VARIABLES
  env,       \* the resources held by the external services
  start,     \* env when the run began
  settings,  \* Settings: the configured IDs
  calls,     \* the requests issued so far, each with its argument and answer
  faults,    \* injected faults so far
  cl,        \* the cleanup process: position, locals, summary
  pv,        \* the provision_all runs: position, locals, result
  sy         \* the wait_for_sync call: position, locals, the job as fetched

vars == <<env, start, settings, calls, faults, cl, pv, sy>>

\* ------------------------------------------------------------------ bounds

\* Objects the document bucket may hold.
MaxDocs == 2
\* Keys one list_objects_v2 page carries.
PageSize == 1
\* Injected faults per run.
MaxFaults == 1

\* How often two concurrent provision_all runs alternate at the services.
MaxSwitches == 2
\* Managed policies another actor may have attached to the role.
MaxAttached == 1
\* poll_seconds and timeout_seconds of a wait_for_sync call, in time units.
MaxPoll == 2
MaxTimeout == 4
\* Polls of one wait_for_sync call (reached only with poll_seconds = 0).
MaxPolls == 6
\* Calls of start_sync a caller makes for one data source.
MaxStarts == 2

\* ------------------------------------------------------------- value names

None == "None"
True == "True"
False == "False"

\* The identifiers a configuration may carry (cleanup.py reads them from
\* Settings; config.py declares both as `str | None`).
KbId == "kb-1"
DsId == "ds-1"

\* The IDs the knowledge-base service hands out, in order of creation.
KbIds == <<"kb-1", "kb-2", "kb-3">>
DsIds == <<"ds-1", "ds-2", "ds-3">>

\* A knowledge base of another name than KNOWLEDGE_BASE_NAME.
ForeignKb == "kb-x"

\* The three inline policies infra.py writes.
PolicyNames == {"S3Access", "S3VectorsAccess", "BedrockModelAccess"}

\* -------------------------------------------------------- external services

\* kbs holds the IDs of the knowledge bases, dss the <<knowledge base ID, data
\* source ID>> pairs of the data sources, kb_made and ds_made count the ones
\* ever created (an ID is never given twice); the other resources exist or
\* not.  objects counts the keys of the document bucket, `inline` and
\* `attached` are the role's policies, `stale` the inline policies whose
\* document is not the one ensure_bedrock_kb_role writes.
EmptyEnv ==
  [ kbs |-> {}, dss |-> {}, kb_made |-> 0, ds_made |-> 0, retain |-> FALSE,
    vector_bucket |-> FALSE, vector_index |-> FALSE,
    document_bucket |-> FALSE, objects |-> 0,
    role |-> FALSE, inline |-> {}, stale |-> {}, attached |-> 0 ]

\* None of the resources exists.
Empty(e) == [e EXCEPT !.retain = FALSE, !.kb_made = 0, !.ds_made = 0] = EmptyEnv

\* What a request is about, for the "removed by another actor" fault.
Vanished(req, arg, e) ==
  CASE req \in {"get_knowledge_base", "delete_knowledge_base"} ->
         [e EXCEPT !.kbs = @ \ {arg}, !.dss = {d \in @ : d[1] # arg}]
    [] req \in {"get_data_source", "update_data_source", "delete_data_source"} ->
         [e EXCEPT !.dss = @ \ {arg}]
    [] req \in {"delete_index", "get_index"} -> [e EXCEPT !.vector_index = FALSE]
    [] req \in {"delete_vector_bucket", "get_vector_bucket"} ->
         [e EXCEPT !.vector_bucket = FALSE, !.vector_index = FALSE]
    [] req \in {"list_objects_v2", "delete_objects", "delete_bucket", "head_bucket"} ->
         [e EXCEPT !.document_bucket = FALSE, !.objects = 0]
    [] OTHER ->
         [e EXCEPT !.role = FALSE, !.inline = {}, !.stale = {}, !.attached = 0]

\* The truthful answer to a request and the state it leaves: <<answer, env'>>.
\* arg is the request's argument (an ID, a policy name, a number of keys).
Truth(req, arg, e) ==
  CASE req = "get_knowledge_base" ->
         <<IF arg \in e.kbs THEN "ok" ELSE "notfound", e>>
    [] req = "get_data_source" ->
         <<IF arg \in e.dss THEN "ok" ELSE "notfound", e>>
    [] req = "update_data_source" ->
         IF arg \in e.dss THEN <<"ok", [e EXCEPT !.retain = TRUE]>>
         ELSE <<"notfound", e>>
    [] req = "delete_data_source" ->
         IF arg \in e.dss THEN <<"ok", [e EXCEPT !.dss = @ \ {arg}]>>
         ELSE <<"notfound", e>>
    [] req = "delete_knowledge_base" ->
         IF arg \in e.kbs
         THEN <<"ok", [e EXCEPT !.kbs = @ \ {arg}, !.dss = {d \in @ : d[1] # arg}]>>
         ELSE <<"notfound", e>>
    [] req = "delete_index" ->
         IF e.vector_index THEN <<"ok", [e EXCEPT !.vector_index = FALSE]>>
         ELSE <<"notfound", e>>
    [] req = "delete_vector_bucket" ->
         IF ~e.vector_bucket THEN <<"notfound", e>>
         ELSE IF e.vector_index THEN <<"conflict", e>>
         ELSE <<"ok", [e EXCEPT !.vector_bucket = FALSE]>>
    [] req = "list_objects_v2" ->
         <<IF e.document_bucket THEN "ok" ELSE "notfound", e>>
    [] req = "delete_objects" ->
         IF e.document_bucket THEN <<"ok", [e EXCEPT !.objects = @ - arg]>>
         ELSE <<"notfound", e>>
    [] req = "delete_bucket" ->
         IF ~e.document_bucket THEN <<"notfound", e>>
         ELSE IF e.objects > 0 THEN <<"notempty", e>>
         ELSE <<"ok", [e EXCEPT !.document_bucket = FALSE]>>
    [] req \in {"list_role_policies", "list_attached_role_policies"} ->
         <<IF e.role THEN "ok" ELSE "notfound", e>>
    [] req = "delete_role_policy" ->
         IF e.role /\ arg \in e.inline
         THEN <<"ok", [e EXCEPT !.inline = @ \ {arg}, !.stale = @ \ {arg}]>>
         ELSE <<"notfound", e>>
    [] req = "detach_role_policy" ->
         IF e.role /\ e.attached > 0 THEN <<"ok", [e EXCEPT !.attached = @ - 1]>>
         ELSE <<"notfound", e>>
    [] req = "delete_role" ->
         IF ~e.role THEN <<"notfound", e>>
         ELSE IF e.inline # {} \/ e.attached > 0 THEN <<"conflict", e>>
         ELSE <<"ok", [e EXCEPT !.role = FALSE]>>
    [] req = "head_bucket" ->
         <<IF e.document_bucket THEN "ok" ELSE "notfound", e>>
    [] req = "create_bucket" ->
         IF e.document_bucket THEN <<"exists", e>>
         ELSE <<"ok", [e EXCEPT !.document_bucket = TRUE]>>
    [] req = "upload_file" ->
         IF e.document_bucket
         THEN <<"ok", [e EXCEPT !.objects = IF arg > @ THEN arg ELSE @]>>
         ELSE <<"notfound", e>>
    [] req = "get_vector_bucket" ->
         <<IF e.vector_bucket THEN "ok" ELSE "notfound", e>>
    [] req = "create_vector_bucket" ->
         IF e.vector_bucket THEN <<"exists", e>>
         ELSE <<"ok", [e EXCEPT !.vector_bucket = TRUE]>>
    [] req = "get_index" ->
         <<IF e.vector_index THEN "ok" ELSE "notfound", e>>
    [] req = "create_index" ->
         IF ~e.vector_bucket THEN <<"notfound", e>>
         ELSE IF e.vector_index THEN <<"exists", e>>
         ELSE <<"ok", [e EXCEPT !.vector_index = TRUE]>>
    [] req = "get_role" ->
         <<IF e.role THEN "ok" ELSE "notfound", e>>
    [] req = "create_role" ->
         IF e.role THEN <<"exists", e>> ELSE <<"ok", [e EXCEPT !.role = TRUE]>>
    [] req = "put_role_policy" ->
         IF e.role
         THEN <<"ok", [e EXCEPT !.inline = @ \cup {arg}, !.stale = @ \ {arg}]>>
         ELSE <<"notfound", e>>
    [] req = "list_knowledge_bases" -> <<"ok", e>>
    [] req = "create_knowledge_base" ->
         <<"ok", [e EXCEPT !.kbs = @ \cup {KbIds[e.kb_made + 1]}, !.kb_made = @ + 1]>>
    [] req = "list_data_sources" ->
         <<IF arg \in e.kbs THEN "ok" ELSE "notfound", e>>
    [] req = "create_data_source" ->
         IF arg \in e.kbs
         THEN <<"ok", [e EXCEPT !.dss = @ \cup {<<arg, DsIds[e.ds_made + 1]>>},
                                !.ds_made = @ + 1]>>
         ELSE <<"notfound", e>>

\* The requests the service may answer with "operation in progress".
ConflictCapable ==
  {"update_data_source", "delete_data_source", "delete_knowledge_base",
   "delete_index", "delete_vector_bucket", "delete_role"}

\* The requests that may find their resource removed by another actor.
Vanishable ==
  {"get_knowledge_base", "get_data_source", "update_data_source",
   "delete_data_source", "delete_knowledge_base", "delete_index",
   "delete_vector_bucket", "list_objects_v2", "delete_objects", "delete_bucket",
   "list_role_policies", "delete_role_policy", "list_attached_role_policies",
   "detach_role_policy", "delete_role",
   "head_bucket", "get_vector_bucket", "get_index", "get_role"}

\* Every <<answer, env', fault?>> the service may give to a request.
Answers(req, arg) ==
  LET t == Truth(req, arg, env) IN
  {<<t[1], t[2], 0>>}
  \cup (IF faults < MaxFaults
        THEN {<<"other", env, 1>>}
             \cup (IF req \in ConflictCapable THEN {<<"conflict", env, 1>>} ELSE {})
             \cup (IF t[1] # "notfound" /\ req \in Vanishable
                   THEN {<<"notfound", Vanished(req, arg, env), 1>>} ELSE {})
        ELSE {})

\* One request of the cleanup process: the answer a, the service state after
\* it, the log.
Request(req, arg, a) ==
  /\ a \in Answers(req, arg)
  /\ env' = a[2]
  /\ faults' = faults + a[3]
  /\ calls' = Append(calls, [req |-> req, arg |-> arg, ans |-> a[1], by |-> 0])

\* ------------------------------------------------------------ cleanup.py

\* The provision_all runs.
Runs == {1, 2}

\* No wait_for_sync call is under way.
SyIdle == [pc |-> "idle"]

\* No provision_all run is under way.
PvIdle == [p \in Runs |-> [pc |-> "idle"]]

Kinds ==
  <<"knowledge_base_deleted", "data_source_deleted", "vector_index_deleted",
    "vector_bucket_deleted", "document_bucket_deleted", "iam_role_deleted">>

KindSet == {Kinds[i] : i \in 1..Len(Kinds)}

\* The fields of CleanupSummary in declaration order (the order of __dict__).
Fields ==
  <<"knowledge_base_deleted", "data_source_deleted", "vector_index_deleted",
    "vector_bucket_deleted", "documents_deleted", "document_bucket_deleted",
    "iam_role_deleted">>

\* CleanupSummary(): every outcome None, documents_deleted = 0.
CleanupSummary ==
  [ knowledge_base_deleted |-> None, data_source_deleted |-> None,
    vector_index_deleted |-> None, vector_bucket_deleted |-> None,
    documents_deleted |-> 0, document_bucket_deleted |-> None,
    iam_role_deleted |-> None ]

\* Mutant of IsFailure: `not value is True`, which counts an unset outcome.
IsFailure_NotTrue(value) == value # True

\* `value is False` of failures().
IsFailure(value) == value = False

\* CleanupSummary.failures(): the keys, in field order, skipping
\* documents_deleted, whose value is False.
RECURSIVE failuresFrom(_, _)
failuresFrom(s, i) ==
  IF i > Len(Fields) THEN <<>>
  ELSE IF Fields[i] = "documents_deleted" THEN failuresFrom(s, i + 1)
  ELSE IF IsFailure(s[Fields[i]]) THEN <<Fields[i]>> \o failuresFrom(s, i + 1)
  ELSE failuresFrom(s, i + 1)

failures(s) == failuresFrom(s, 1)

\* The locals of one cleanup process (cleanup_all called by main).
ClInit ==
  [ pc |-> "start", summary |-> CleanupSummary, knowledge_base_id |-> None,
    data_source_info |-> None, deleted |-> 0, keys |-> 0, truncated |-> FALSE,
    policy_names |-> {}, attached_policies |-> 0, returned |-> FALSE,
    failures |-> <<>>, exit |-> None ]

\* Mutant of ResolveResult: a resource reported gone is still taken for the
\* configured one, so its dependents are attempted.
ResolveResult_Assume(ans, id) ==
  CASE ans = "ok" -> id
    [] ans = "notfound" -> id
    [] OTHER -> "raise"

\* resolve_knowledge_base_id's and resolve_data_source's reading of the answer
\* to the lookup: the ID, None when the resource is gone, and "raise" for any
\* other error, which neither function catches.
ResolveResult(ans, id) ==
  CASE ans = "ok" -> id
    [] ans = "notfound" -> None
    [] OTHER -> "raise"

\* Mutant of BedrockDeleteResult: an absent resource counted as deleted.
BedrockDeleteResult_NotFoundTrue(ans) ==
  CASE ans = "ok" -> True
    [] ans = "notfound" -> True
    [] ans = "conflict" -> True
    [] OTHER -> False

\* Mutant of BedrockDeleteResult: a conflict counted as a failure, as the
\* S3 Vectors deletes count it.
BedrockDeleteResult_ConflictFails(ans) ==
  CASE ans = "ok" -> True
    [] ans = "notfound" -> None
    [] OTHER -> False

\* delete_data_source and delete_knowledge_base: the outcome of the delete
\* request's answer.
BedrockDeleteResult(ans) ==
  CASE ans = "ok" -> True
    [] ans = "notfound" -> None
    [] ans = "conflict" -> True
    [] OTHER -> False

\* Mutant of VectorsDeleteResult: an absent resource counted as a failure.
VectorsDeleteResult_NotFoundFails(ans) ==
  CASE ans = "ok" -> True
    [] OTHER -> False

\* delete_vector_index and delete_vector_bucket.
VectorsDeleteResult(ans) ==
  CASE ans = "ok" -> True
    [] ans = "notfound" -> None
    [] ans = "conflict" -> False
    [] OTHER -> False

\* Mutant of BucketDeleteResult: a bucket that still holds objects is taken
\* for a skipped step.
BucketDeleteResult_NotEmptyUnset(ans) ==
  CASE ans = "ok" -> True
    [] ans = "notfound" -> None
    [] ans = "notempty" -> None
    [] OTHER -> False

\* delete_document_bucket: NoSuchBucket, BucketNotEmpty, any other code.
BucketDeleteResult(ans) ==
  CASE ans = "ok" -> True
    [] ans = "notfound" -> None
    [] ans = "notempty" -> False
    [] OTHER -> False

\* delete_iam_role: NoSuchEntity from any of its requests, any other error.
RoleErrorResult(ans) ==
  CASE ans = "notfound" -> None
    [] OTHER -> False

\* empty_document_bucket's except clause: NoSuchBucket returns 0, any other
\* error returns the count so far.
PurgeErrorResult(ans, deleted) ==
  IF ans = "notfound" THEN 0 ELSE deleted

\* Mutant of ClResolveKb: without a knowledge base ID the data source is
\* recorded as failed as well.
ClResolveKb_DsFailed ==
  /\ cl.pc = "start"
  /\ IF settings.KNOWLEDGE_BASE_ID = None
     THEN /\ cl' = [cl EXCEPT !.pc = "delete_index",
                              !.summary.knowledge_base_deleted = False,
                              !.summary.data_source_deleted = False]
          /\ UNCHANGED <<env, faults, calls>>
     ELSE \E a \in Answers("get_knowledge_base", settings.KNOWLEDGE_BASE_ID) :
            /\ Request("get_knowledge_base", settings.KNOWLEDGE_BASE_ID, a)
            /\ LET r == ResolveResult(a[1], settings.KNOWLEDGE_BASE_ID) IN
               cl' = IF r = "raise" THEN [cl EXCEPT !.pc = "raised"]
                     ELSE IF r = None THEN [cl EXCEPT !.pc = "delete_index"]
                     ELSE [cl EXCEPT !.pc = "resolve_ds", !.knowledge_base_id = r]
  /\ UNCHANGED <<settings, start, pv, sy>>

\* cleanup_all, lines 333-339: resolve the knowledge base.
ClResolveKb ==
  /\ cl.pc = "start"
  /\ IF settings.KNOWLEDGE_BASE_ID = None
     THEN /\ cl' = [cl EXCEPT !.pc = "delete_index",
                              !.summary.knowledge_base_deleted = False]
          /\ UNCHANGED <<env, faults, calls>>
     ELSE \E a \in Answers("get_knowledge_base", settings.KNOWLEDGE_BASE_ID) :
            /\ Request("get_knowledge_base", settings.KNOWLEDGE_BASE_ID, a)
            /\ LET r == ResolveResult(a[1], settings.KNOWLEDGE_BASE_ID) IN
               cl' = IF r = "raise" THEN [cl EXCEPT !.pc = "raised"]
                     ELSE IF r = None THEN [cl EXCEPT !.pc = "delete_index"]
                     ELSE [cl EXCEPT !.pc = "resolve_ds", !.knowledge_base_id = r]
  /\ UNCHANGED <<settings, start, pv, sy>>

\* DataSourceInfo: the IDs the update and delete requests need.
DataSourceInfo == <<cl.knowledge_base_id, settings.DATA_SOURCE_ID>>

\* Mutant of ClResolveDs: the data source is deleted without the RETAIN
\* update before it.
ClResolveDs_NoUpdate ==
  /\ cl.pc = "resolve_ds"
  /\ IF settings.DATA_SOURCE_ID = None
     THEN /\ cl' = [cl EXCEPT !.pc = "delete_knowledge_base",
                              !.summary.data_source_deleted = False]
          /\ UNCHANGED <<env, faults, calls>>
     ELSE \E a \in Answers("get_data_source", DataSourceInfo) :
            /\ Request("get_data_source", DataSourceInfo, a)
            /\ LET r == ResolveResult(a[1], DataSourceInfo) IN
               cl' = IF r = "raise" THEN [cl EXCEPT !.pc = "raised"]
                     ELSE IF r = None THEN [cl EXCEPT !.pc = "delete_knowledge_base"]
                     ELSE [cl EXCEPT !.pc = "delete_data_source",
                                     !.data_source_info = r]
  /\ UNCHANGED <<settings, start, pv, sy>>

\* cleanup_all, lines 341-353: resolve the data source.
ClResolveDs ==
  /\ cl.pc = "resolve_ds"
  /\ IF settings.DATA_SOURCE_ID = None
     THEN /\ cl' = [cl EXCEPT !.pc = "delete_knowledge_base",
                              !.summary.data_source_deleted = False]
          /\ UNCHANGED <<env, faults, calls>>
     ELSE \E a \in Answers("get_data_source", DataSourceInfo) :
            /\ Request("get_data_source", DataSourceInfo, a)
            /\ LET r == ResolveResult(a[1], DataSourceInfo) IN
               cl' = IF r = "raise" THEN [cl EXCEPT !.pc = "raised"]
                     ELSE IF r = None THEN [cl EXCEPT !.pc = "delete_knowledge_base"]
                     ELSE [cl EXCEPT !.pc = "update_data_source",
                                     !.data_source_info = r]
  /\ UNCHANGED <<settings, start, pv, sy>>

\* Mutant of ClUpdateDs: a failed RETAIN update is fatal for the data source:
\* it is recorded as a failure and the delete is not issued.
ClUpdateDs_FailFatal ==
  /\ cl.pc = "update_data_source"
  /\ \E a \in Answers("update_data_source", cl.data_source_info) :
       /\ Request("update_data_source", cl.data_source_info, a)
       /\ cl' = IF a[1] = "ok" THEN [cl EXCEPT !.pc = "delete_data_source"]
                ELSE [cl EXCEPT !.pc = "delete_knowledge_base",
                                !.summary.data_source_deleted = False]
  /\ UNCHANGED <<settings, start, pv, sy>>

\* delete_data_source, lines 125-133: the RETAIN update; every error is
\* caught and the delete follows.
ClUpdateDs ==
  /\ cl.pc = "update_data_source"
  /\ \E a \in Answers("update_data_source", cl.data_source_info) :
       Request("update_data_source", cl.data_source_info, a)
  /\ cl' = [cl EXCEPT !.pc = "delete_data_source"]
  /\ UNCHANGED <<settings, start, pv, sy>>

\* delete_data_source, lines 135-153, and cleanup_all line 351.
ClDeleteDs ==
  /\ cl.pc = "delete_data_source"
  /\ \E a \in Answers("delete_data_source", cl.data_source_info) :
       /\ Request("delete_data_source", cl.data_source_info, a)
       /\ cl' = [cl EXCEPT !.pc = "delete_knowledge_base",
                           !.summary.data_source_deleted = BedrockDeleteResult(a[1])]
  /\ UNCHANGED <<settings, start, pv, sy>>

\* Mutant of ClDeleteKb: cleanup_all goes on with the vector bucket, the
\* index delete left out.
ClDeleteKb_SkipIndex ==
  /\ cl.pc = "delete_knowledge_base"
  /\ \E a \in Answers("delete_knowledge_base", cl.knowledge_base_id) :
       /\ Request("delete_knowledge_base", cl.knowledge_base_id, a)
       /\ cl' = [cl EXCEPT !.pc = "delete_vector_bucket",
                           !.summary.knowledge_base_deleted = BedrockDeleteResult(a[1])]
  /\ UNCHANGED <<settings, start, pv, sy>>

\* delete_knowledge_base and cleanup_all line 355.
ClDeleteKb ==
  /\ cl.pc = "delete_knowledge_base"
  /\ \E a \in Answers("delete_knowledge_base", cl.knowledge_base_id) :
       /\ Request("delete_knowledge_base", cl.knowledge_base_id, a)
       /\ cl' = [cl EXCEPT !.pc = "delete_index",
                           !.summary.knowledge_base_deleted = BedrockDeleteResult(a[1])]
  /\ UNCHANGED <<settings, start, pv, sy>>

\* Mutant of ClDeleteIndex: the role deleted where the exact reverse of the
\* provisioning order has it, right after the knowledge base.
ClDeleteIndex_RoleFirst ==
  /\ cl.pc = "delete_index"
  /\ \E a \in Answers("delete_role", 0) :
       /\ Request("delete_role", 0, a)
       /\ cl' = [cl EXCEPT !.pc = "delete_vector_bucket",
                           !.summary.iam_role_deleted =
                              IF a[1] = "ok" THEN True ELSE False]
  /\ UNCHANGED <<settings, start, pv, sy>>

\* delete_vector_index and cleanup_all line 359.
ClDeleteIndex ==
  /\ cl.pc = "delete_index"
  /\ \E a \in Answers("delete_index", 0) :
       /\ Request("delete_index", 0, a)
       /\ cl' = [cl EXCEPT !.pc = "delete_vector_bucket",
                           !.summary.vector_index_deleted = VectorsDeleteResult(a[1])]
  /\ UNCHANGED <<settings, start, pv, sy>>

\* delete_vector_bucket and cleanup_all line 360.
ClDeleteVectorBucket ==
  /\ cl.pc = "delete_vector_bucket"
  /\ \E a \in Answers("delete_vector_bucket", 0) :
       /\ Request("delete_vector_bucket", 0, a)
       /\ cl' = [cl EXCEPT !.pc = "list_objects_v2",
                           !.summary.vector_bucket_deleted = VectorsDeleteResult(a[1])]
  /\ UNCHANGED <<settings, start, pv, sy>>

\* The smaller of two numbers.
Min(a, b) == IF a < b THEN a ELSE b

\* Mutant of PurgeReturn: the count empty_document_bucket returns is dropped.
PurgeReturn_NoCount(c, n) ==
  [c EXCEPT !.pc = "delete_bucket", !.deleted = 0, !.keys = 0, !.truncated = FALSE]

\* empty_document_bucket returns n: cleanup_all line 361 stores it.
PurgeReturn(c, n) ==
  [c EXCEPT !.pc = "delete_bucket", !.deleted = 0, !.keys = 0, !.truncated = FALSE,
            !.summary.documents_deleted = n]

\* empty_document_bucket, lines 245-248: one page of the listing.  A page
\* without keys is skipped; the paginator asks for the next page while the
\* listing is truncated.
ClListObjects ==
  /\ cl.pc = "list_objects_v2"
  /\ \E a \in Answers("list_objects_v2", 0) :
       /\ Request("list_objects_v2", 0, a)
       /\ LET keys == Min(PageSize, env.objects)
              more == env.objects > keys
          IN cl' = IF a[1] # "ok" THEN PurgeReturn(cl, PurgeErrorResult(a[1], cl.deleted))
                   ELSE IF keys = 0
                        THEN IF more THEN [cl EXCEPT !.keys = 0, !.truncated = more]
                             ELSE PurgeReturn(cl, cl.deleted)
                   ELSE [cl EXCEPT !.pc = "delete_objects", !.keys = keys,
                                   !.truncated = more]
  /\ UNCHANGED <<settings, start, pv, sy>>

\* _chunk_delete and empty_document_bucket lines 249-250: the batch delete of
\* the page's keys, then the count.
ClDeleteObjects ==
  /\ cl.pc = "delete_objects"
  /\ \E a \in Answers("delete_objects", cl.keys) :
       /\ Request("delete_objects", cl.keys, a)
       /\ cl' = IF a[1] # "ok" THEN PurgeReturn(cl, PurgeErrorResult(a[1], cl.deleted))
                ELSE IF cl.truncated
                     THEN [cl EXCEPT !.pc = "list_objects_v2",
                                     !.deleted = @ + cl.keys]
                ELSE PurgeReturn(cl, cl.deleted + cl.keys)
  /\ UNCHANGED <<settings, start, pv, sy>>

\* Mutant of ClDeleteBucket: a failed bucket delete ends cleanup_all at once.
ClDeleteBucket_Abort ==
  /\ cl.pc = "delete_bucket"
  /\ \E a \in Answers("delete_bucket", 0) :
       /\ Request("delete_bucket", 0, a)
       /\ cl' = [cl EXCEPT !.pc = IF BucketDeleteResult(a[1]) = False
                                  THEN "main" ELSE "list_role_policies",
                           !.returned = BucketDeleteResult(a[1]) = False,
                           !.summary.document_bucket_deleted = BucketDeleteResult(a[1])]
  /\ UNCHANGED <<settings, start, pv, sy>>

\* delete_document_bucket and cleanup_all line 362.
ClDeleteBucket ==
  /\ cl.pc = "delete_bucket"
  /\ \E a \in Answers("delete_bucket", 0) :
       /\ Request("delete_bucket", 0, a)
       /\ cl' = [cl EXCEPT !.pc = "list_role_policies",
                           !.summary.document_bucket_deleted = BucketDeleteResult(a[1])]
  /\ UNCHANGED <<settings, start, pv, sy>>

\* delete_iam_role returns r: cleanup_all line 363 stores it and returns the
\* summary (lines 365-386 only print).
RoleReturn(c, r) ==
  [c EXCEPT !.pc = "main", !.policy_names = {}, !.attached_policies = 0,
            !.summary.iam_role_deleted = r, !.returned = TRUE]

\* Where delete_iam_role goes once the inline policies in `names` and `n`
\* attachments are left to remove.
RoleNext(c, names, n) ==
  [c EXCEPT !.policy_names = names, !.attached_policies = n,
            !.pc = IF names # {} THEN "delete_role_policy"
                   ELSE IF n > 0 THEN "detach_role_policy"
                   ELSE "delete_role"]

\* delete_iam_role, line 298.
ClListRolePolicies ==
  /\ cl.pc = "list_role_policies"
  /\ \E a \in Answers("list_role_policies", 0) :
       /\ Request("list_role_policies", 0, a)
       /\ cl' = IF a[1] # "ok" THEN RoleReturn(cl, RoleErrorResult(a[1]))
                ELSE IF env.inline # {}
                     THEN [cl EXCEPT !.pc = "delete_role_policy",
                                     !.policy_names = env.inline]
                ELSE [cl EXCEPT !.pc = "list_attached_role_policies"]
  /\ UNCHANGED <<settings, start, pv, sy>>

\* Mutant of ClDeleteRolePolicy: a policy whose delete failed is skipped and
\* delete_iam_role goes on.
ClDeleteRolePolicy_SkipFailed ==
  /\ cl.pc = "delete_role_policy"
  /\ LET name == CHOOSE n \in cl.policy_names : TRUE IN
     \E a \in Answers("delete_role_policy", name) :
       /\ Request("delete_role_policy", name, a)
       /\ cl' = IF cl.policy_names \ {name} # {}
                THEN [cl EXCEPT !.policy_names = @ \ {name}]
                ELSE [cl EXCEPT !.pc = "list_attached_role_policies",
                                !.policy_names = {}]
  /\ UNCHANGED <<settings, start, pv, sy>>

\* delete_iam_role, lines 299-301: one inline policy of the listing.
ClDeleteRolePolicy ==
  /\ cl.pc = "delete_role_policy"
  /\ LET name == CHOOSE n \in cl.policy_names : TRUE IN
     \E a \in Answers("delete_role_policy", name) :
       /\ Request("delete_role_policy", name, a)
       /\ cl' = IF a[1] # "ok" THEN RoleReturn(cl, RoleErrorResult(a[1]))
                ELSE IF cl.policy_names \ {name} # {}
                     THEN [cl EXCEPT !.policy_names = @ \ {name}]
                ELSE [cl EXCEPT !.pc = "list_attached_role_policies",
                                !.policy_names = {}]
  /\ UNCHANGED <<settings, start, pv, sy>>

\* delete_iam_role, line 307.
ClListAttached ==
  /\ cl.pc = "list_attached_role_policies"
  /\ \E a \in Answers("list_attached_role_policies", 0) :
       /\ Request("list_attached_role_policies", 0, a)
       /\ cl' = IF a[1] # "ok" THEN RoleReturn(cl, RoleErrorResult(a[1]))
                ELSE RoleNext(cl, {}, env.attached)
  /\ UNCHANGED <<settings, start, pv, sy>>

\* delete_iam_role, lines 308-310: one attachment of the listing.
ClDetachRolePolicy ==
  /\ cl.pc = "detach_role_policy"
  /\ \E a \in Answers("detach_role_policy", 0) :
       /\ Request("detach_role_policy", 0, a)
       /\ cl' = IF a[1] # "ok" THEN RoleReturn(cl, RoleErrorResult(a[1]))
                ELSE RoleNext(cl, {}, cl.attached_policies - 1)
  /\ UNCHANGED <<settings, start, pv, sy>>

\* delete_iam_role, lines 313-324.
ClDeleteRole ==
  /\ cl.pc = "delete_role"
  /\ \E a \in Answers("delete_role", 0) :
       /\ Request("delete_role", 0, a)
       /\ cl' = RoleReturn(cl, IF a[1] = "ok" THEN True ELSE RoleErrorResult(a[1]))
  /\ UNCHANGED <<settings, start, pv, sy>>

\* main's exit status from the failures of the summary.
ExitStatus(f) == IF f # <<>> THEN 1 ELSE 0

\* main, lines 393-397.
ClMain ==
  /\ cl.pc = "main"
  /\ cl' = [cl EXCEPT !.pc = "done", !.failures = failures(cl.summary),
                      !.exit = ExitStatus(failures(cl.summary))]
  /\ UNCHANGED <<env, start, settings, calls, faults, pv, sy>>

\* cleanup_all called by main, one request at a time.
cleanup_all ==
  \/ ClResolveKb
  \/ ClResolveDs
  \/ ClUpdateDs
  \/ ClDeleteDs
  \/ ClDeleteKb
  \/ ClDeleteIndex
  \/ ClDeleteVectorBucket
  \/ ClListObjects
  \/ ClDeleteObjects
  \/ ClDeleteBucket
  \/ ClListRolePolicies
  \/ ClDeleteRolePolicy
  \/ ClListAttached
  \/ ClDetachRolePolicy
  \/ ClDeleteRole

\* The states of the services a run may start from: every resource present
\* or absent, an index only in a vector bucket, objects only in a document
\* bucket (none or MaxDocs), policies only on a role (no or MaxAttached
\* managed ones), a data source only in a knowledge base.
EnvStates ==
  { e \in [ kbs : {{}, {KbId}}, dss : {{}, {<<KbId, DsId>>}},
            kb_made : 0..1, ds_made : 0..1, retain : {FALSE},
            vector_bucket : BOOLEAN, vector_index : BOOLEAN,
            document_bucket : BOOLEAN, objects : {0, MaxDocs},
            role : BOOLEAN, inline : {{}, PolicyNames}, stale : {{}},
            attached : {0, MaxAttached} ] :
      /\ e.dss # {} => e.kbs # {}
      /\ e.kb_made = Cardinality(e.kbs)
      /\ e.ds_made = Cardinality(e.dss)
      /\ e.vector_index => e.vector_bucket
      /\ e.objects > 0 => e.document_bucket
      /\ (e.inline # {} \/ e.attached > 0) => e.role }

\* The configurations: each ID set or absent.
SettingsStates ==
  [ KNOWLEDGE_BASE_ID : {None, KbId}, DATA_SOURCE_ID : {None, DsId},
    LOCAL_DATA_DIR : {None}, files : {0} ]

InitCleanup ==
  /\ env \in EnvStates
  /\ start = env
  /\ settings \in SettingsStates
  /\ calls = <<>>
  /\ faults = 0
  /\ cl = ClInit
  /\ pv = PvIdle
  /\ sy = SyIdle

NextCleanup == cleanup_all \/ ClMain

SpecCleanup == InitCleanup /\ [][NextCleanup]_vars

\* Every CleanupSummary: each outcome True, False or None, any count.
Summaries ==
  [ knowledge_base_deleted : {True, False, None},
    data_source_deleted : {True, False, None},
    vector_index_deleted : {True, False, None},
    vector_bucket_deleted : {True, False, None},
    documents_deleted : 0..MaxDocs,
    document_bucket_deleted : {True, False, None},
    iam_role_deleted : {True, False, None} ]

\* main entered with an arbitrary summary returned by cleanup_all.
InitSummary ==
  /\ env = EmptyEnv
  /\ start = env
  /\ settings \in SettingsStates
  /\ calls = <<>>
  /\ faults = 0
  /\ \E s \in Summaries : cl = [ClInit EXCEPT !.pc = "main", !.summary = s,
                                              !.returned = TRUE]
  /\ pv = PvIdle
  /\ sy = SyIdle

SpecSummary == InitSummary /\ [][ClMain]_vars

\* -------------------------------------------------------------- infra.py

\* The ARNs: the document bucket's is computed from its name, the others are
\* read from the services' answers.
DocumentBucketArn == "arn:aws:s3:::documents"
VectorBucketArn == "arn:aws:s3vectors:::bucket/vectors"
VectorIndexArn == "arn:aws:s3vectors:::bucket/vectors/index/index"
RoleArn == "arn:aws:iam:::role/BedrockKnowledgeBaseRole"

\* The inline policies in the order ensure_bedrock_kb_role writes them.
PolicyOrder == <<"S3Access", "S3VectorsAccess", "BedrockModelAccess">>

\* The step of provision_all a request belongs to, as the wrappers name them.
StepOf(req) ==
  CASE req \in {"head_bucket", "create_bucket"} -> "document bucket"
    [] req = "upload_file" -> "sample document upload"
    [] req \in {"get_vector_bucket", "create_vector_bucket", "get_index", "create_index"}
         -> "S3 Vectors bucket and index"
    [] req \in {"get_role", "create_role", "put_role_policy"}
         -> "Bedrock knowledge base role"
    [] req \in {"list_knowledge_bases", "create_knowledge_base"} -> "knowledge base"
    [] OTHER -> "data source"

\* The steps in the order provision_all runs them.
Steps ==
  <<"document bucket", "sample document upload", "S3 Vectors bucket and index",
    "Bedrock knowledge base role", "knowledge base", "data source">>

\* The locals of one provision_all run.
PvInit ==
  [ pc |-> "head_bucket", document_bucket_arn |-> None, vector_bucket_arn |-> None,
    vector_index_arn |-> None, role_arn |-> None, knowledge_base_id |-> None,
    data_source_id |-> None, uploaded |-> 0, puts |-> 0, policies |-> <<>>,
    failed |-> None, result |-> None ]

\* One request of run p.
PvRequest(p, req, arg, a) ==
  /\ a \in Answers(req, arg)
  /\ env' = a[2]
  /\ faults' = faults + a[3]
  /\ calls' = Append(calls, [req |-> req, arg |-> arg, ans |-> a[1], by |-> p])

\* Run p's locals become c.
PvSet(p, c) == pv' = [pv EXCEPT ![p] = c]

\* Mutant of PvFail: a wrapper that logs the failure and does not re-raise,
\* so provision_all goes on with the step after the failed one.
PvFail_Swallow(c, step) ==
  [c EXCEPT !.failed = step,
            !.pc = CASE step = "document bucket" -> "upload_file"
                     [] step = "sample document upload" -> "get_vector_bucket"
                     [] step = "S3 Vectors bucket and index" -> "get_role"
                     [] step = "Bedrock knowledge base role" -> "list_knowledge_bases"
                     [] step = "knowledge base" -> "list_data_sources"
                     [] OTHER -> "raised"]

\* The _provision_* wrappers' except clause: print [FAIL] and re-raise;
\* provision_all catches nothing, so the run ends without a result.
PvFail(c, step) == [c EXCEPT !.pc = "raised", !.failed = step]

\* ensure_document_bucket's reading of the head_bucket error code: "404",
\* "NoSuchBucket" and "NotFound" lead to the create, any other code is raised.
HeadBucketResult(ans) ==
  CASE ans = "ok" -> "exists"
    [] ans = "notfound" -> "create"
    [] OTHER -> "raise"

\* Mutant of LookupResult: every failed lookup is taken for an absent
\* resource.
LookupResult_CreateOnError(ans) ==
  CASE ans = "ok" -> "exists"
    [] OTHER -> "create"

\* The get-or-create steps' reading of the lookup's answer
\* (NotFoundException, NoSuchEntityException): create when absent.
LookupResult(ans) ==
  CASE ans = "ok" -> "exists"
    [] ans = "notfound" -> "create"
    [] OTHER -> "raise"

\* ensure_document_bucket, lines 29-35 and 43.
PvHeadBucket(p) ==
  /\ pv[p].pc = "head_bucket"
  /\ \E a \in Answers("head_bucket", 0) :
       /\ PvRequest(p, "head_bucket", 0, a)
       /\ LET r == HeadBucketResult(a[1]) IN
          PvSet(p, IF r = "raise" THEN PvFail(pv[p], "document bucket")
                   ELSE IF r = "create" THEN [pv[p] EXCEPT !.pc = "create_bucket"]
                   ELSE [pv[p] EXCEPT !.pc = "upload_file",
                                      !.document_bucket_arn = DocumentBucketArn])
  /\ UNCHANGED <<settings, start, cl, sy>>

\* ensure_document_bucket, lines 36-43.
PvCreateBucket(p) ==
  /\ pv[p].pc = "create_bucket"
  /\ \E a \in Answers("create_bucket", 0) :
       /\ PvRequest(p, "create_bucket", 0, a)
       /\ PvSet(p, IF a[1] # "ok" THEN PvFail(pv[p], "document bucket")
                   ELSE [pv[p] EXCEPT !.pc = "upload_file",
                                      !.document_bucket_arn = DocumentBucketArn])
  /\ UNCHANGED <<settings, start, cl, sy>>

\* upload_sample_documents: FileNotFoundError without the local directory,
\* else one upload_file per file, then the next step.
PvUpload(p) ==
  /\ pv[p].pc = "upload_file"
  /\ IF settings.LOCAL_DATA_DIR = None
     THEN /\ PvSet(p, PvFail(pv[p], "sample document upload"))
          /\ UNCHANGED <<env, faults, calls>>
     ELSE IF pv[p].uploaded = settings.files
     THEN /\ PvSet(p, [pv[p] EXCEPT !.pc = "get_vector_bucket"])
          /\ UNCHANGED <<env, faults, calls>>
     ELSE \E a \in Answers("upload_file", pv[p].uploaded + 1) :
            /\ PvRequest(p, "upload_file", pv[p].uploaded + 1, a)
            /\ PvSet(p, IF a[1] # "ok" THEN PvFail(pv[p], "sample document upload")
                        ELSE [pv[p] EXCEPT !.uploaded = @ + 1])
  /\ UNCHANGED <<settings, start, cl, sy>>

\* ensure_vector_bucket_and_index, lines 70-74 and 82-83.
PvGetVectorBucket(p) ==
  /\ pv[p].pc = "get_vector_bucket"
  /\ \E a \in Answers("get_vector_bucket", 0) :
       /\ PvRequest(p, "get_vector_bucket", 0, a)
       /\ LET r == LookupResult(a[1]) IN
          PvSet(p, IF r = "raise" THEN PvFail(pv[p], "S3 Vectors bucket and index")
                   ELSE IF r = "create" THEN [pv[p] EXCEPT !.pc = "create_vector_bucket"]
                   ELSE [pv[p] EXCEPT !.pc = "get_index",
                                      !.vector_bucket_arn = VectorBucketArn])
  /\ UNCHANGED <<settings, start, cl, sy>>

\* ensure_vector_bucket_and_index, lines 75-77.
PvCreateVectorBucket(p) ==
  /\ pv[p].pc = "create_vector_bucket"
  /\ \E a \in Answers("create_vector_bucket", 0) :
       /\ PvRequest(p, "create_vector_bucket", 0, a)
       /\ PvSet(p, IF a[1] # "ok" THEN PvFail(pv[p], "S3 Vectors bucket and index")
                   ELSE [pv[p] EXCEPT !.pc = "get_vector_bucket_again"])
  /\ UNCHANGED <<settings, start, cl, sy>>

\* ensure_vector_bucket_and_index, lines 78-83: the lookup after the create;
\* inside the except clause every error is raised.
PvGetVectorBucketAgain(p) ==
  /\ pv[p].pc = "get_vector_bucket_again"
  /\ \E a \in Answers("get_vector_bucket", 0) :
       /\ PvRequest(p, "get_vector_bucket", 0, a)
       /\ PvSet(p, IF a[1] # "ok" THEN PvFail(pv[p], "S3 Vectors bucket and index")
                   ELSE [pv[p] EXCEPT !.pc = "get_index",
                                      !.vector_bucket_arn = VectorBucketArn])
  /\ UNCHANGED <<settings, start, cl, sy>>

\* ensure_vector_bucket_and_index, lines 85-90 and 103.
PvGetIndex(p) ==
  /\ pv[p].pc = "get_index"
  /\ \E a \in Answers("get_index", 0) :
       /\ PvRequest(p, "get_index", 0, a)
       /\ LET r == LookupResult(a[1]) IN
          PvSet(p, IF r = "raise" THEN PvFail(pv[p], "S3 Vectors bucket and index")
                   ELSE IF r = "create" THEN [pv[p] EXCEPT !.pc = "create_index"]
                   ELSE [pv[p] EXCEPT !.pc = "get_role",
                                      !.vector_index_arn = VectorIndexArn])
  /\ UNCHANGED <<settings, start, cl, sy>>

\* ensure_vector_bucket_and_index, lines 91-97.
PvCreateIndex(p) ==
  /\ pv[p].pc = "create_index"
  /\ \E a \in Answers("create_index", 0) :
       /\ PvRequest(p, "create_index", 0, a)
       /\ PvSet(p, IF a[1] # "ok" THEN PvFail(pv[p], "S3 Vectors bucket and index")
                   ELSE [pv[p] EXCEPT !.pc = "get_index_again"])
  /\ UNCHANGED <<settings, start, cl, sy>>

\* ensure_vector_bucket_and_index, lines 98-103.
PvGetIndexAgain(p) ==
  /\ pv[p].pc = "get_index_again"
  /\ \E a \in Answers("get_index", 0) :
       /\ PvRequest(p, "get_index", 0, a)
       /\ PvSet(p, IF a[1] # "ok" THEN PvFail(pv[p], "S3 Vectors bucket and index")
                   ELSE [pv[p] EXCEPT !.pc = "get_role",
                                      !.vector_index_arn = VectorIndexArn])
  /\ UNCHANGED <<settings, start, cl, sy>>

\* The Resource entries of the policy document ensure_bedrock_kb_role builds
\* for a policy name from the ARNs it was called with, each an ARN and a
\* suffix: lines 141-153, 160-177 (the index entries only with an index
\* ARN) and 184-193.
PolicyDocument(name, c) ==
  CASE name = "S3Access" ->
         {<<c.document_bucket_arn, "">>, <<c.document_bucket_arn, "/*">>}
    [] name = "S3VectorsAccess" ->
         {<<c.vector_bucket_arn, "">>, <<c.vector_bucket_arn, "/*">>}
         \cup (IF c.vector_index_arn # None
               THEN {<<c.vector_index_arn, "">>, <<c.vector_bucket_arn, "/index/*">>}
               ELSE {})
    [] OTHER -> {<<"*", "">>}

\* Mutant of PvGetRole: a role that exists is taken as it is, its policies
\* not written again.
PvGetRole_SkipIfExists(p) ==
  /\ pv[p].pc = "get_role"
  /\ \E a \in Answers("get_role", 0) :
       /\ PvRequest(p, "get_role", 0, a)
       /\ LET r == LookupResult(a[1]) IN
          PvSet(p, IF r = "raise" THEN PvFail(pv[p], "Bedrock knowledge base role")
                   ELSE IF r = "create" THEN [pv[p] EXCEPT !.pc = "create_role"]
                   ELSE [pv[p] EXCEPT !.pc = "list_knowledge_bases",
                                      !.role_arn = RoleArn])
  /\ UNCHANGED <<settings, start, cl, sy>>

\* ensure_bedrock_kb_role, lines 118-121.
PvGetRole(p) ==
  /\ pv[p].pc = "get_role"
  /\ \E a \in Answers("get_role", 0) :
       /\ PvRequest(p, "get_role", 0, a)
       /\ LET r == LookupResult(a[1]) IN
          PvSet(p, IF r = "raise" THEN PvFail(pv[p], "Bedrock knowledge base role")
                   ELSE IF r = "create" THEN [pv[p] EXCEPT !.pc = "create_role"]
                   ELSE [pv[p] EXCEPT !.pc = "put_role_policy", !.role_arn = RoleArn])
  /\ UNCHANGED <<settings, start, cl, sy>>

\* ensure_bedrock_kb_role, lines 122-139.
PvCreateRole(p) ==
  /\ pv[p].pc = "create_role"
  /\ \E a \in Answers("create_role", 0) :
       /\ PvRequest(p, "create_role", 0, a)
       /\ PvSet(p, IF a[1] # "ok" THEN PvFail(pv[p], "Bedrock knowledge base role")
                   ELSE [pv[p] EXCEPT !.pc = "put_role_policy", !.role_arn = RoleArn])
  /\ UNCHANGED <<settings, start, cl, sy>>

\* ensure_bedrock_kb_role, lines 141-200: the three put_role_policy requests.
PvPutRolePolicy(p) ==
  /\ pv[p].pc = "put_role_policy"
  /\ LET name == PolicyOrder[pv[p].puts + 1] IN
     \E a \in Answers("put_role_policy", name) :
       /\ PvRequest(p, "put_role_policy", name, a)
       /\ PvSet(p, IF a[1] # "ok" THEN PvFail(pv[p], "Bedrock knowledge base role")
                   ELSE IF pv[p].puts + 1 < Len(PolicyOrder)
                        THEN [pv[p] EXCEPT !.puts = @ + 1,
                                !.policies = Append(@, PolicyDocument(name, pv[p]))]
                   ELSE [pv[p] EXCEPT !.puts = @ + 1,
                                !.policies = Append(@, PolicyDocument(name, pv[p])),
                                !.pc = "list_knowledge_bases"])
  /\ UNCHANGED <<settings, start, cl, sy>>

\* The name the knowledge-base service reports for a knowledge base.
KbName(id) == IF id = ForeignKb THEN "other" ELSE "s3-vectors-rag-hands-on"

\* The knowledge bases as list_knowledge_bases pages them.
KbListing(e) ==
  LET ids == <<ForeignKb>> \o KbIds IN
  SelectSeq(ids, LAMBDA id : id \in e.kbs)

\* The data sources of knowledge base kb as list_data_sources pages them;
\* each is named "s3-sample-documents".
DsListing(e, kb) == SelectSeq(DsIds, LAMBDA id : <<kb, id>> \in e.dss)

\* Mutant of FindKnowledgeBase: the listing is never matched, so a knowledge
\* base is created on every run.
FindKnowledgeBase_NeverFound(listing) == None

\* get_or_create_knowledge_base, lines 211-215: the ID of the first listed
\* knowledge base named KNOWLEDGE_BASE_NAME, None when the loops end.
FindKnowledgeBase(listing) ==
  LET named == SelectSeq(listing, LAMBDA id : KbName(id) = "s3-vectors-rag-hands-on")
  IN IF named = <<>> THEN None ELSE Head(named)

\* get_or_create_data_source, lines 240-244.
FindDataSource(listing) == IF listing = <<>> THEN None ELSE Head(listing)

\* Mutant of KnowledgeBaseResources: the record built from the run's locals
\* before the data source ID is stored in them.
KnowledgeBaseResources_StaleDs(c, ds) ==
  [ knowledge_base_id |-> c.knowledge_base_id, data_source_id |-> c.data_source_id,
    vector_bucket_arn |-> c.vector_bucket_arn,
    vector_index_arn |-> c.vector_index_arn ]

\* provision_all, lines 352-357: the record returned after the last step.
KnowledgeBaseResources(c, ds) ==
  [ knowledge_base_id |-> c.knowledge_base_id, data_source_id |-> ds,
    vector_bucket_arn |-> c.vector_bucket_arn,
    vector_index_arn |-> c.vector_index_arn ]

\* provision_all returns once the data source step gave ds.
PvReturn(c, ds) ==
  [c EXCEPT !.pc = "returned", !.data_source_id = ds,
            !.result = KnowledgeBaseResources(c, ds)]

\* get_or_create_knowledge_base, lines 209-215.
PvListKbs(p) ==
  /\ pv[p].pc = "list_knowledge_bases"
  /\ \E a \in Answers("list_knowledge_bases", 0) :
       /\ PvRequest(p, "list_knowledge_bases", 0, a)
       /\ LET found == FindKnowledgeBase(KbListing(env)) IN
          PvSet(p, IF a[1] # "ok" THEN PvFail(pv[p], "knowledge base")
                   ELSE IF found = None THEN [pv[p] EXCEPT !.pc = "create_knowledge_base"]
                   ELSE [pv[p] EXCEPT !.pc = "list_data_sources",
                                      !.knowledge_base_id = found])
  /\ UNCHANGED <<settings, start, cl, sy>>

\* get_or_create_knowledge_base, lines 217-234.
PvCreateKb(p) ==
  /\ pv[p].pc = "create_knowledge_base"
  /\ \E a \in Answers("create_knowledge_base", 0) :
       /\ PvRequest(p, "create_knowledge_base", 0, a)
       /\ PvSet(p, IF a[1] # "ok" THEN PvFail(pv[p], "knowledge base")
                   ELSE [pv[p] EXCEPT !.pc = "list_data_sources",
                                      !.knowledge_base_id = KbIds[env.kb_made + 1]])
  /\ UNCHANGED <<settings, start, cl, sy>>

\* get_or_create_data_source, lines 239-244, and provision_all's return.
PvListDss(p) ==
  /\ pv[p].pc = "list_data_sources"
  /\ \E a \in Answers("list_data_sources", pv[p].knowledge_base_id) :
       /\ PvRequest(p, "list_data_sources", pv[p].knowledge_base_id, a)
       /\ LET found == FindDataSource(DsListing(env, pv[p].knowledge_base_id)) IN
          PvSet(p, IF a[1] # "ok" THEN PvFail(pv[p], "data source")
                   ELSE IF found = None THEN [pv[p] EXCEPT !.pc = "create_data_source"]
                   ELSE PvReturn(pv[p], found))
  /\ UNCHANGED <<settings, start, cl, sy>>

\* get_or_create_data_source, lines 246-258, and provision_all's return.
PvCreateDs(p) ==
  /\ pv[p].pc = "create_data_source"
  /\ \E a \in Answers("create_data_source", pv[p].knowledge_base_id) :
       /\ PvRequest(p, "create_data_source", pv[p].knowledge_base_id, a)
       /\ PvSet(p, IF a[1] # "ok" THEN PvFail(pv[p], "data source")
                   ELSE PvReturn(pv[p], DsIds[env.ds_made + 1]))
  /\ UNCHANGED <<settings, start, cl, sy>>

\* A run has ended: it returned its result or raised.
Ended(p) == pv[p].pc \in {"returned", "raised"}

\* Consecutive runs: the second starts when the first has ended.
Turn(p) == p = 1 \/ Ended(1)

\* The states of the services provisioning may start from: those of cleanup
\* without attachments, those with a knowledge base of another name beside
\* the buckets, the index and the role, and those whose role holds altered
\* policy documents.
ProvisionEnvStates ==
  LET base == {e \in EnvStates : e.attached = 0 /\ e.objects \in {0, MaxDocs}} IN
  base \cup {[e EXCEPT !.kbs = @ \cup {ForeignKb}] :
               e \in {b \in base : /\ b.document_bucket /\ b.objects = 0
                                    /\ b.vector_index /\ b.inline # {}}}
       \cup {[e EXCEPT !.stale = PolicyNames] :
               e \in {b \in base : /\ b.inline # {} /\ b.objects = 0
                                    /\ b.vector_bucket = b.vector_index}}

\* LOCAL_DATA_DIR: absent, or a directory of `files` files.
ProvisionSettings ==
  {st \in
  [ KNOWLEDGE_BASE_ID : {None}, DATA_SOURCE_ID : {None},
    LOCAL_DATA_DIR : {None, "data/input"}, files : {0, MaxDocs} ] :
     st.LOCAL_DATA_DIR = None => st.files = 0}

InitProvision ==
  /\ env \in ProvisionEnvStates
  /\ start = env
  /\ settings \in ProvisionSettings
  /\ calls = <<>>
  /\ faults = 0
  /\ cl = [ClInit EXCEPT !.pc = "idle"]
  /\ pv = [p \in Runs |-> PvInit]
  /\ sy = SyIdle

\* provision_all: the runs in turn, one request at a time.
NextProvision ==
  \/ \E p \in Runs : Turn(p) /\ PvHeadBucket(p)
  \/ \E p \in Runs : Turn(p) /\ PvCreateBucket(p)
  \/ \E p \in Runs : Turn(p) /\ PvUpload(p)
  \/ \E p \in Runs : Turn(p) /\ PvGetVectorBucket(p)
  \/ \E p \in Runs : Turn(p) /\ PvCreateVectorBucket(p)
  \/ \E p \in Runs : Turn(p) /\ PvGetVectorBucketAgain(p)
  \/ \E p \in Runs : Turn(p) /\ PvGetIndex(p)
  \/ \E p \in Runs : Turn(p) /\ PvCreateIndex(p)
  \/ \E p \in Runs : Turn(p) /\ PvGetIndexAgain(p)
  \/ \E p \in Runs : Turn(p) /\ PvGetRole(p)
  \/ \E p \in Runs : Turn(p) /\ PvCreateRole(p)
  \/ \E p \in Runs : Turn(p) /\ PvPutRolePolicy(p)
  \/ \E p \in Runs : Turn(p) /\ PvListKbs(p)
  \/ \E p \in Runs : Turn(p) /\ PvCreateKb(p)
  \/ \E p \in Runs : Turn(p) /\ PvListDss(p)
  \/ \E p \in Runs : Turn(p) /\ PvCreateDs(p)

SpecProvision == InitProvision /\ [][NextProvision]_vars

\* Two provision_all invocations started side by side against services that
\* hold none of the resources: nothing in infra.py orders one invocation's
\* requests against the other's.
InitInterleaved ==
  /\ env = EmptyEnv
  /\ start = env
  /\ settings \in ProvisionSettings
  /\ calls = <<>>
  /\ faults = 0
  /\ cl = [ClInit EXCEPT !.pc = "idle"]
  /\ pv = [p \in Runs |-> PvInit]
  /\ sy = SyIdle

\* How often the service was reached by another run than the request before.
Switches == Cardinality({i \in 1..(Len(calls) - 1) : calls[i].by # calls[i + 1].by})

\* Run p may take the next step: it took the last one, or the runs have
\* alternated fewer than MaxSwitches times.
MayRun(p) ==
  IF calls = <<>> THEN TRUE
  ELSE IF calls[Len(calls)].by = p THEN TRUE
  ELSE Switches < MaxSwitches

\* provision_all, twice at once: one request of either run at a time.
NextInterleaved ==
  \/ \E p \in Runs : MayRun(p) /\ PvHeadBucket(p)
  \/ \E p \in Runs : MayRun(p) /\ PvCreateBucket(p)
  \/ \E p \in Runs : MayRun(p) /\ PvUpload(p)
  \/ \E p \in Runs : MayRun(p) /\ PvGetVectorBucket(p)
  \/ \E p \in Runs : MayRun(p) /\ PvCreateVectorBucket(p)
  \/ \E p \in Runs : MayRun(p) /\ PvGetVectorBucketAgain(p)
  \/ \E p \in Runs : MayRun(p) /\ PvGetIndex(p)
  \/ \E p \in Runs : MayRun(p) /\ PvCreateIndex(p)
  \/ \E p \in Runs : MayRun(p) /\ PvGetIndexAgain(p)
  \/ \E p \in Runs : MayRun(p) /\ PvGetRole(p)
  \/ \E p \in Runs : MayRun(p) /\ PvCreateRole(p)
  \/ \E p \in Runs : MayRun(p) /\ PvPutRolePolicy(p)
  \/ \E p \in Runs : MayRun(p) /\ PvListKbs(p)
  \/ \E p \in Runs : MayRun(p) /\ PvCreateKb(p)
  \/ \E p \in Runs : MayRun(p) /\ PvListDss(p)
  \/ \E p \in Runs : MayRun(p) /\ PvCreateDs(p)

SpecInterleaved == InitInterleaved /\ [][NextInterleaved]_vars

\* ---------------------------------------------------------------- sync.py

\* IngestionStatus.
IngestionStatus ==
  {"STARTING", "IN_PROGRESS", "COMPLETE", "FAILED", "STOPPING", "STOPPED"}

\* Mutant of TerminalStatuses: STOPPING taken for a final status.
TerminalStatuses_WithStopping == {"COMPLETE", "FAILED", "STOPPING", "STOPPED"}

\* wait_for_sync, line 62: the statuses that end the wait.
TerminalStatuses == {"COMPLETE", "FAILED", "STOPPED"}

\* The statuses the ingestion service may report for a job last seen in
\* status st: the job stays, or moves on; a final status is kept.
LaterStatuses(st) ==
  CASE st = "STARTING" -> IngestionStatus
    [] st = "IN_PROGRESS" -> IngestionStatus \ {"STARTING"}
    [] st = "STOPPING" -> {"STOPPING", "STOPPED"}
    [] OTHER -> {st}

\* The job states get_ingestion_job may answer with after job j: a later
\* status, a document count that does not shrink, failure reasons that stay.
LaterJobs(j) ==
  { n \in [ status : LaterStatuses(j.status), scanned : j.scanned..MaxDocs,
            failureReasons : j.failureReasons..1 ] :
      n.status = j.status /\ j.status \in {"COMPLETE", "FAILED", "STOPPED"} => n = j }

\* The job as start_ingestion_job leaves it.
StartedJob == [status |-> "STARTING", scanned |-> 0, failureReasons |-> 0]

\* Mutant of WhileCondition: `waited < timeout_seconds`.
WhileCondition_Strict(waited, timeout_seconds) == waited < timeout_seconds

\* wait_for_sync, line 52: the loop goes on while waited <= timeout_seconds.
WhileCondition(waited, timeout_seconds) == waited <= timeout_seconds

\* Mutant of OnUpdateInvoked: the callback invoked only when the status is
\* not the one of the poll before.
OnUpdateInvoked_OnChange(c, status) ==
  c.on_update # None /\ (c.observed = <<>> \/ c.observed[Len(c.observed)] # status)

\* wait_for_sync, lines 60-61: `if on_update: on_update(status, job)`.
OnUpdateInvoked(c, status) == c.on_update # None

\* main.on_update, lines 106-117: print once per change of status.
OnUpdatePrints(c, status) == status # c.last_status

\* wait_for_sync's defaults for poll_seconds and timeout_seconds.
DefaultPollSeconds == 20
DefaultTimeoutSeconds == 3600

\* uuid.uuid4(): the n-th value drawn differs from every value drawn before.
Uuid4(n) == n

\* Mutant of ClientToken: a token derived from the IDs, the same on every
\* call for one data source.
ClientToken_PerDataSource(c) == 0

\* start_sync, line 34: clientToken=str(uuid.uuid4()), drawn anew on each call.
ClientToken(c) == Uuid4(Len(c.sent) + 1)

\* The job the ingestion service answers a start request with: the job it
\* made for the token if it has seen the token, else a new one.  Jobs are
\* numbered in order of creation; `tokens` are the tokens received so far.
JobFor(tokens, token) ==
  IF \E i \in 1..Len(tokens) : tokens[i] = token
  THEN Cardinality({tokens[j] : j \in 1..(CHOOSE i \in 1..Len(tokens) : tokens[i] = token)})
  ELSE Cardinality({tokens[j] : j \in 1..Len(tokens)}) + 1

\* wait_for_sync entered with its arguments; main's locals for its callback.
\* `caller` is who runs: a direct call of wait_for_sync for job 1, calls of
\* start_sync, sync_data_source, or main; `at` is the caller's position;
\* job_id is 0 until start_sync returned one.  `sent` are the tokens of the
\* start requests, `tokens` those the service accepted, `jobs` the job IDs
\* start_sync returned.
SyInit(poll_seconds, timeout_seconds, on_update) ==
  [ pc |-> "loop", poll_seconds |-> poll_seconds,
    timeout_seconds |-> timeout_seconds, on_update |-> on_update, waited |-> 0,
    job |-> StartedJob, polls |-> 0, observed |-> <<>>, invoked |-> 0,
    last_status |-> None, printed |-> 0, result |-> None,
    caller |-> "wait_for_sync", at |-> "wait_for_sync", sent |-> <<>>,
    tokens |-> <<>>, jobs |-> <<>>, job_id |-> 1, exit |-> None ]

\* Mutant of SyMainStart: main goes on to start_sync whatever is configured.
SyMainStart_NoCheck ==
  /\ sy.at = "main"
  /\ sy' = [sy EXCEPT !.at = "start_sync"]
  /\ UNCHANGED <<env, start, settings, calls, faults, cl, pv>>

\* main, lines 86-92: SystemExit with a message (exit status 1) unless both
\* IDs are configured.
SyMainStart ==
  /\ sy.at = "main"
  /\ sy' = IF settings.KNOWLEDGE_BASE_ID = None \/ settings.DATA_SOURCE_ID = None
           THEN [sy EXCEPT !.at = "exited", !.exit = 1]
           ELSE [sy EXCEPT !.at = "start_sync"]
  /\ UNCHANGED <<env, start, settings, calls, faults, cl, pv>>

\* start_sync: one start_ingestion_job request with a new token; the job ID
\* of the answer is returned.  sync_data_source and main then call
\* wait_for_sync with it; any error leaves start_sync as an exception.
SyStartSync ==
  /\ sy.at = "start_sync"
  /\ Len(sy.sent) < MaxStarts
  /\ LET token == ClientToken(sy)
         id == JobFor(sy.tokens, token)
     IN \/ /\ sy' = [sy EXCEPT !.sent = Append(@, token),
                                !.tokens = Append(@, token), !.jobs = Append(@, id),
                                !.job_id = id,
                                !.at = IF sy.caller = "start_sync" THEN "start_sync"
                                       ELSE "wait_for_sync"]
           /\ calls' = Append(calls, [req |-> "start_ingestion_job", arg |-> token,
                                      ans |-> "ok", by |-> 0])
           /\ UNCHANGED faults
        \/ /\ faults < MaxFaults
           /\ sy' = [sy EXCEPT !.sent = Append(@, token), !.at = "raised"]
           /\ calls' = Append(calls, [req |-> "start_ingestion_job", arg |-> token,
                                      ans |-> "other", by |-> 0])
           /\ faults' = faults + 1
  /\ UNCHANGED <<env, start, settings, cl, pv>>

\* wait_for_sync, lines 52-63: one pass of the loop up to the sleep: the
\* get_ingestion_job request, the callback, the return on a final status.
SyPoll ==
  /\ sy.at = "wait_for_sync"
  /\ sy.pc = "loop"
  /\ WhileCondition(sy.waited, sy.timeout_seconds)
  /\ sy.polls < MaxPolls
  /\ \/ \E job \in LaterJobs(sy.job) :
          LET status == job.status
              call == OnUpdateInvoked(sy, status)
              print == call /\ sy.on_update = "main.on_update"
                            /\ OnUpdatePrints(sy, status)
          IN /\ sy' = [sy EXCEPT
                    !.job = job, !.polls = @ + 1,
                    !.observed = Append(@, status),
                    !.invoked = IF call THEN @ + 1 ELSE @,
                    !.printed = IF print THEN @ + 1 ELSE @,
                    !.last_status = IF print THEN status ELSE @,
                    !.result = IF status \in TerminalStatuses THEN job ELSE @,
                    !.pc = IF status \in TerminalStatuses THEN "returned" ELSE "sleep"]
             /\ calls' = Append(calls, [req |-> "get_ingestion_job", arg |-> sy.job_id,
                                        ans |-> "ok", by |-> 0])
             /\ UNCHANGED faults
     \/ /\ faults < MaxFaults
        /\ sy' = [sy EXCEPT !.polls = @ + 1, !.pc = "error"]
        /\ calls' = Append(calls, [req |-> "get_ingestion_job", arg |-> sy.job_id,
                                   ans |-> "other", by |-> 0])
        /\ faults' = faults + 1
  /\ UNCHANGED <<env, start, settings, cl, pv>>

\* Mutant of SySleep: the sleep without `waited += poll_seconds`.
SySleep_NoAdvance ==
  /\ sy.at = "wait_for_sync"
  /\ sy.pc = "sleep"
  /\ sy' = [sy EXCEPT !.pc = "loop"]
  /\ UNCHANGED <<env, start, settings, calls, faults, cl, pv>>

\* wait_for_sync, lines 64-65: time.sleep(poll_seconds); waited += poll_seconds.
SySleep ==
  /\ sy.at = "wait_for_sync"
  /\ sy.pc = "sleep"
  /\ sy' = [sy EXCEPT !.waited = @ + sy.poll_seconds, !.pc = "loop"]
  /\ UNCHANGED <<env, start, settings, calls, faults, cl, pv>>

\* wait_for_sync, lines 67-70: the loop ended, TimeoutError.
SyTimeout ==
  /\ sy.at = "wait_for_sync"
  /\ sy.pc = "loop"
  /\ ~WhileCondition(sy.waited, sy.timeout_seconds)
  /\ sy' = [sy EXCEPT !.pc = "timeout"]
  /\ UNCHANGED <<env, start, settings, calls, faults, cl, pv>>

\* Mutant of ExitCode: the failure reasons of a COMPLETE job ignored.
ExitCode_StatusOnly(status, reasons) == IF status = "COMPLETE" THEN 0 ELSE 1

\* main, line 144: 0 if status == "COMPLETE" and not failures else 1;
\* `reasons` is the number of failure reasons.
ExitCode(status, reasons) == IF status = "COMPLETE" /\ reasons = 0 THEN 0 ELSE 1

\* main, lines 119-145: the exit status.  A TimeoutError is caught and gives
\* 1; an error of get_ingestion_job is caught nowhere and ends the process
\* with status 1 as well, and so does an error of start_sync.  Line 132
\* reads a missing failureReasons key, or a null one, as the empty list:
\* failureReasons = 0 stands for all three.
SyMainExit ==
  /\ sy.caller = "main"
  /\ sy.at \in {"wait_for_sync", "raised"}
  /\ sy.at = "wait_for_sync" => sy.pc \in {"returned", "timeout", "error"}
  /\ sy' = [sy EXCEPT
             !.at = "exited",
             !.exit = IF sy.at = "wait_for_sync" /\ sy.pc = "returned"
                      THEN ExitCode(sy.result.status, sy.result.failureReasons)
                      ELSE 1]
  /\ UNCHANGED <<env, start, settings, calls, faults, cl, pv>>

\* The calls: wait_for_sync with any interval and timeout, with main's
\* callback or none; start_sync, called again and again; sync_data_source;
\* main.  sync_data_source and main pass no interval and no timeout; main is
\* run with the bounded ones as well, which brings its timeout within the
\* bound on polls.
InitSync ==
  /\ env = EmptyEnv
  /\ start = env
  /\ calls = <<>>
  /\ faults = 0
  /\ cl = [ClInit EXCEPT !.pc = "idle"]
  /\ pv = PvIdle
  /\ \/ /\ settings \in {st \in SettingsStates : st.KNOWLEDGE_BASE_ID # None
                                                   /\ st.DATA_SOURCE_ID # None}
        /\ \/ \E poll_seconds \in 0..MaxPoll, timeout_seconds \in 0..MaxTimeout,
                 on_update \in {None, "main.on_update"} :
                sy = SyInit(poll_seconds, timeout_seconds, on_update)
           \/ \E caller \in {"start_sync", "sync_data_source"} :
                sy = [SyInit(DefaultPollSeconds, DefaultTimeoutSeconds, None)
                        EXCEPT !.caller = caller, !.at = "start_sync", !.job_id = 0]
     \/ /\ settings \in SettingsStates
        /\ \E timing \in {<<DefaultPollSeconds, DefaultTimeoutSeconds>>}
                             \cup ((0..MaxPoll) \X (0..MaxTimeout)) :
             sy = [SyInit(timing[1], timing[2], "main.on_update")
                     EXCEPT !.caller = "main", !.at = "main", !.job_id = 0]

NextSync ==
  \/ SyMainStart
  \/ SyStartSync
  \/ SyPoll
  \/ SySleep
  \/ SyTimeout
  \/ SyMainExit

SpecSync == InitSync /\ [][NextSync]_vars

\* wait_for_sync called with any interval and timeout within the bounds,
\* poll_seconds = 0 included, with main's callback or none.
InitWait ==
  /\ env = EmptyEnv
  /\ start = env
  /\ settings \in {st \in SettingsStates : st.KNOWLEDGE_BASE_ID # None
                                            /\ st.DATA_SOURCE_ID # None}
  /\ calls = <<>>
  /\ faults = 0
  /\ cl = [ClInit EXCEPT !.pc = "idle"]
  /\ pv = PvIdle
  /\ \E poll_seconds \in 0..MaxPoll, timeout_seconds \in 0..MaxTimeout,
        on_update \in {None, "main.on_update"} :
       sy = SyInit(poll_seconds, timeout_seconds, on_update)

NextWait == SyPoll \/ SySleep \/ SyTimeout

\* The thread running wait_for_sync is not stopped from outside: the request
\* is answered, time.sleep returns.
SpecWait == InitWait /\ [][NextWait]_vars /\ WF_vars(NextWait)

\* ------------------------------------------------- provision, sync, cleanup

\* The IDs provision_all returned are put in the configuration (config.py
\* lines 54-55: passed on through the environment) and sync_data_source is
\* called with them.
ScSync ==
  /\ pv[1].pc = "returned"
  /\ sy.at = "idle"
  /\ settings' = [settings EXCEPT
                    !.KNOWLEDGE_BASE_ID = pv[1].result.knowledge_base_id,
                    !.DATA_SOURCE_ID = pv[1].result.data_source_id]
  /\ sy' = [sy EXCEPT !.at = "start_sync"]
  /\ UNCHANGED <<env, start, calls, faults, cl, pv>>

\* The cleanup process is run once sync_data_source returned a COMPLETE job
\* without failure reasons.
ScCleanup ==
  /\ sy.pc = "returned"
  /\ sy.result.status = "COMPLETE" /\ sy.result.failureReasons = 0
  /\ cl.pc = "idle"
  /\ cl' = ClInit
  /\ UNCHANGED <<env, start, settings, calls, faults, pv, sy>>

\* A fresh environment, a local directory of two documents, no ID configured
\* yet; one provision_all run.
InitScenario ==
  /\ env = EmptyEnv
  /\ start = env
  /\ settings = [ KNOWLEDGE_BASE_ID |-> None, DATA_SOURCE_ID |-> None,
                  LOCAL_DATA_DIR |-> "data/input", files |-> 2 ]
  /\ calls = <<>>
  /\ faults = 0
  /\ cl = [ClInit EXCEPT !.pc = "idle"]
  /\ pv = [PvIdle EXCEPT ![1] = PvInit]
  /\ sy = [SyInit(DefaultPollSeconds, DefaultTimeoutSeconds, None)
            EXCEPT !.caller = "sync_data_source", !.at = "idle", !.job_id = 0]

\* provision_all, then sync_data_source, then the cleanup process.  Two steps
\* are out of reach here and left out: the timeout of the wait (3600 s is
\* beyond MaxPolls polls of 20 s) and the detach of a managed policy (the
\* role provision_all makes has none attached).
NextScenario ==
  \/ PvHeadBucket(1)
  \/ PvCreateBucket(1)
  \/ PvUpload(1)
  \/ PvGetVectorBucket(1)
  \/ PvCreateVectorBucket(1)
  \/ PvGetVectorBucketAgain(1)
  \/ PvGetIndex(1)
  \/ PvCreateIndex(1)
  \/ PvGetIndexAgain(1)
  \/ PvGetRole(1)
  \/ PvCreateRole(1)
  \/ PvPutRolePolicy(1)
  \/ PvListKbs(1)
  \/ PvCreateKb(1)
  \/ PvListDss(1)
  \/ PvCreateDs(1)
  \/ ScSync
  \/ SyStartSync
  \/ SyPoll
  \/ SySleep
  \/ ScCleanup
  \/ ClResolveKb
  \/ ClResolveDs
  \/ ClUpdateDs
  \/ ClDeleteDs
  \/ ClDeleteKb
  \/ ClDeleteIndex
  \/ ClDeleteVectorBucket
  \/ ClListObjects
  \/ ClDeleteObjects
  \/ ClDeleteBucket
  \/ ClListRolePolicies
  \/ ClDeleteRolePolicy
  \/ ClListAttached
  \/ ClDeleteRole
  \/ ClMain

SpecScenario == InitScenario /\ [][NextScenario]_vars

\* --------------------------------------------------------- missing IDs

\* The configurations lacking the knowledge base ID or the data source ID.
Misconfigured ==
  {st \in SettingsStates : st.KNOWLEDGE_BASE_ID = None \/ st.DATA_SOURCE_ID = None}

\* One of the two entry points is run on a configuration lacking an ID: the
\* cleanup process, or sync's main.
InitMisconfigured ==
  /\ env \in EnvStates
  /\ start = env
  /\ settings \in Misconfigured
  /\ calls = <<>>
  /\ faults = 0
  /\ pv = PvIdle
  /\ \/ /\ cl = ClInit
        /\ sy = [SyInit(DefaultPollSeconds, DefaultTimeoutSeconds, "main.on_update")
                   EXCEPT !.caller = "main", !.at = "idle", !.job_id = 0]
     \/ /\ cl = [ClInit EXCEPT !.pc = "idle"]
        /\ sy = [SyInit(DefaultPollSeconds, DefaultTimeoutSeconds, "main.on_update")
                   EXCEPT !.caller = "main", !.at = "main", !.job_id = 0]

\* The steps within reach without an ID: main of sync up to its check, and
\* cleanup_all without the update and the delete of the data source.
NextMisconfigured ==
  \/ SyMainStart
  \/ ClResolveKb
  \/ ClResolveDs
  \/ ClDeleteKb
  \/ ClDeleteIndex
  \/ ClDeleteVectorBucket
  \/ ClListObjects
  \/ ClDeleteObjects
  \/ ClDeleteBucket
  \/ ClListRolePolicies
  \/ ClDeleteRolePolicy
  \/ ClListAttached
  \/ ClDetachRolePolicy
  \/ ClDeleteRole
  \/ ClMain

SpecMisconfigured == InitMisconfigured /\ [][NextMisconfigured]_vars

\* ------------------------------------------------------------------ claims

Issued(req) == \E i \in 1..Len(calls) : calls[i].req = req

Answered(req, answers) ==
  \E i \in 1..Len(calls) : calls[i].req = req /\ calls[i].ans \in answers

\* The elements of a sequence.
Range(q) == {q[i] : i \in 1..Len(q)}

\* C1 (as claimed): cleanup_all never raises, whatever the services answer.
\* Violated: an unclassified error answered to get_knowledge_base or to
\* get_data_source is caught by neither resolve function nor by cleanup_all.
C1_NeverRaises == cl.pc # "raised"

\* The teardown steps that failed, read off the answers of the services and
\* the configuration: a missing ID, a delete answered with an unclassified
\* error, an S3 Vectors delete answered with a conflict, a bucket delete
\* answered bucket-not-empty, a role request answered with any error other
\* than not-found.
RoleRequests ==
  {"list_role_policies", "delete_role_policy", "list_attached_role_policies",
   "detach_role_policy", "delete_role"}

FailedKinds ==
  {k \in KindSet :
     CASE k = "knowledge_base_deleted" ->
            \/ settings.KNOWLEDGE_BASE_ID = None
            \/ Answered("delete_knowledge_base", {"other"})
       [] k = "data_source_deleted" ->
            \/ Answered("get_knowledge_base", {"ok"}) /\ settings.DATA_SOURCE_ID = None
            \/ Answered("delete_data_source", {"other"})
       [] k = "vector_index_deleted" -> Answered("delete_index", {"conflict", "other"})
       [] k = "vector_bucket_deleted" ->
            Answered("delete_vector_bucket", {"conflict", "other"})
       [] k = "document_bucket_deleted" -> Answered("delete_bucket", {"notempty", "other"})
       [] OTHER -> \E r \in RoleRequests : Answered(r, {"conflict", "other"}) }

\* The steps cleanup_all runs whatever happened before them.
LaterSteps ==
  {"delete_index", "delete_vector_bucket", "list_objects_v2", "delete_bucket",
   "list_role_policies"}

C3_FailuresAndExit ==
  cl.pc = "done" =>
    /\ Range(cl.failures) = {k \in KindSet : cl.summary[k] = False}
    /\ "documents_deleted" \notin Range(cl.failures)
    /\ Len(cl.failures) = Cardinality(Range(cl.failures))
    /\ cl.exit = 1 <=> \E k \in KindSet : cl.summary[k] = False
    /\ cl.exit \in {0, 1}

\* C3 witness: a summary with a zero count, unset and True outcomes and no
\* False one gives no failures and exit status 0.
C3_Witness ==
  /\ cl.pc = "done"
  /\ cl.summary.documents_deleted = 0
  /\ cl.summary.iam_role_deleted = None
  /\ cl.summary.vector_index_deleted = True
  /\ cl.failures = <<>>
  /\ cl.exit = 0

\* Every outcome unset, no document deleted, no failure.
AllUnset ==
  /\ cl.summary = CleanupSummary
  /\ cl.failures = <<>>
  /\ cl.exit = 0

\* C4 (as claimed): cleanup_all on an environment holding none of the six
\* resources, whose services answer truthfully, returns every outcome unset.
\* Violated when KNOWLEDGE_BASE_ID is not configured: the knowledge base
\* outcome is then False.
C4_Original ==
  (cl.pc = "done" /\ Empty(start) /\ faults = 0) => AllUnset

\* C4 (amended): with KNOWLEDGE_BASE_ID configured, cleanup_all on an
\* environment holding none of the six resources returns every outcome unset,
\* documents_deleted = 0 and no failures; and a run without faults whose six
\* outcomes are all True leaves such an environment behind.
C4_IdempotentTeardown ==
  /\ (cl.pc = "done" /\ Empty(start) /\ faults = 0
        /\ settings.KNOWLEDGE_BASE_ID # None) => AllUnset
  /\ (cl.pc = "done" /\ faults = 0 /\ \A k \in KindSet : cl.summary[k] = True)
        => Empty(env)

\* C4 witness: a finished run on the empty environment that asked for the
\* configured knowledge base and issued every unconditional delete.
C4_Witness ==
  /\ cl.pc = "done"
  /\ Empty(start)
  /\ faults = 0
  /\ Answered("get_knowledge_base", {"notfound"})
  /\ Answered("delete_role", {"notfound"}) \/ Answered("list_role_policies", {"notfound"})
  /\ AllUnset

\* The position of a step in provision_all.
StepIndex(step) == CHOOSE i \in 1..Len(Steps) : Steps[i] = step

\* The requests run p issued, in order.
CallsBy(p) == SelectSeq(calls, LAMBDA c : c.by = p)

\* The create requests.
Creates ==
  {"create_bucket", "create_vector_bucket", "create_index", "create_role",
   "create_knowledge_base", "create_data_source"}

\* C5: provisioning fails fast.  A step that fails ends the run: the failure
\* propagates (the run is raised as soon as a step has failed), no result
\* record exists, every request the run issued belongs to the failed step or
\* to one before it, and a raised run issues no further request.
C5_FailFast ==
  /\ [](\A p \in Runs :
          /\ pv[p].failed # None <=> pv[p].pc = "raised"
          /\ pv[p].pc = "raised" =>
               /\ pv[p].result = None
               /\ \A i \in 1..Len(CallsBy(p)) :
                    StepIndex(StepOf(CallsBy(p)[i].req)) <= StepIndex(pv[p].failed)
               /\ \/ settings.LOCAL_DATA_DIR = None
                        /\ pv[p].failed = "sample document upload"
                  \/ /\ CallsBy(p) # <<>>
                     /\ StepOf(CallsBy(p)[Len(CallsBy(p))].req) = pv[p].failed
                     /\ CallsBy(p)[Len(CallsBy(p))].ans # "ok")
  /\ [][\A p \in Runs :
          pv[p].pc = "raised" => (pv'[p] = pv[p] /\ CallsBy(p)' = CallsBy(p))]_vars

\* C5 witness: the first run failed in its fourth step (the role), after the
\* first three steps created their resources; it has no result, and the
\* second run has started issuing requests.
C5_Witness ==
  /\ pv[1].pc = "raised"
  /\ pv[1].failed = "Bedrock knowledge base role"
  /\ pv[1].result = None
  /\ pv[1].vector_index_arn = VectorIndexArn
  /\ Answered("create_index", {"ok"})
  /\ ~Issued("list_knowledge_bases")
  /\ CallsBy(2) # <<>>

\* The knowledge bases named KNOWLEDGE_BASE_NAME.
NamedKbs(e) == {id \in e.kbs : KbName(id) = "s3-vectors-rag-hands-on"}

\* C6: two consecutive provision_all runs that both return, with no other
\* actor changing the services, return the same identifiers; the second run
\* issues no create request, and one knowledge base of the configured name
\* with one data source exists.
C6_IdempotentProvisioning ==
  (pv[1].pc = "returned" /\ pv[2].pc = "returned" /\ faults = 0) =>
     /\ pv[1].result = pv[2].result
     /\ pv[1].document_bucket_arn = pv[2].document_bucket_arn
     /\ \A i \in 1..Len(CallsBy(2)) : CallsBy(2)[i].req \notin Creates
     /\ Cardinality(NamedKbs(env)) = 1
     /\ Cardinality({d \in env.dss : d[1] \in NamedKbs(env)}) = 1
     /\ env.vector_bucket /\ env.vector_index /\ env.document_bucket /\ env.role

\* C6 witness: on a fresh environment the first run created the six
\* resources, and the second run returned the same record.
C6_Witness ==
  /\ Empty(start)
  /\ faults = 0
  /\ pv[1].pc = "returned"
  /\ pv[2].pc = "returned"
  /\ \A r \in Creates : \E i \in 1..Len(CallsBy(1)) : CallsBy(1)[i].req = r
  /\ pv[2].result = pv[1].result
  /\ pv[2].result.knowledge_base_id = "kb-1"

\* C7 (as claimed): the record of a successful run holds five identifiers,
\* the document bucket ARN among them.  Violated: KnowledgeBaseResources has
\* four fields and no document bucket ARN.
C7_Original ==
  \A p \in Runs :
    pv[p].pc = "returned" =>
      DOMAIN pv[p].result =
        {"data_source_id", "knowledge_base_id", "vector_bucket_arn",
         "vector_index_arn", "document_bucket_arn"}

\* C7 (amended): the record of a successful run holds exactly four populated
\* identifiers, the knowledge base ID, the data source ID, the vector bucket
\* ARN and the vector index ARN, those the steps of the run obtained; neither
\* the role ARN nor the document bucket ARN is part of it.
C7_ResultRecord ==
  \A p \in Runs :
    pv[p].pc = "returned" =>
      /\ DOMAIN pv[p].result =
           {"data_source_id", "knowledge_base_id", "vector_bucket_arn",
            "vector_index_arn"}
      /\ pv[p].result.knowledge_base_id \in Range(KbIds)
      /\ pv[p].result.data_source_id \in Range(DsIds)
      /\ pv[p].result.vector_bucket_arn = VectorBucketArn
      /\ pv[p].result.vector_index_arn = VectorIndexArn
      /\ pv[p].role_arn = RoleArn
      /\ pv[p].document_bucket_arn = DocumentBucketArn

\* C7 witness: a run on a fresh environment has returned its record.
C7_Witness ==
  /\ Empty(start)
  /\ pv[1].pc = "returned"
  /\ pv[1].result.data_source_id = "ds-1"
  /\ Answered("create_data_source", {"ok"})

\* The number of entries of a status sequence that differ from the entry
\* before them (the first one differs from no status at all).
RECURSIVE Changes(_)
Changes(q) ==
  IF q = <<>> THEN 0
  ELSE IF Len(q) = 1 THEN 1
  ELSE Changes(SubSeq(q, 1, Len(q) - 1))
       + (IF q[Len(q)] # q[Len(q) - 1] THEN 1 ELSE 0)

\* The status sequence of the edge-triggering scenario.
FiveStatuses == <<"STARTING", "STARTING", "IN_PROGRESS", "IN_PROGRESS", "COMPLETE">>

\* C8 (as claimed): wait_for_sync invokes the callback given to it only on
\* polls whose status differs from the status of the poll before, 3 times for
\* the five statuses.  Violated: it invokes the callback on every poll.
C8_Original ==
  sy.on_update # None => sy.invoked = Changes(sy.observed)

\* C8 (amended): wait_for_sync invokes the callback given to it on every poll
\* that is answered, whatever the status; it is main's callback on_update
\* that reports (prints) only on polls whose status differs from the last
\* status it reported.  For the five statuses the callback is invoked 5 times
\* and reports 3 times.  Without a callback nothing is invoked.
C8_EdgeTriggering ==
  /\ sy.on_update # None => sy.invoked = Len(sy.observed)
  /\ sy.on_update = None => sy.invoked = 0 /\ sy.printed = 0
  /\ sy.on_update = "main.on_update" =>
       /\ sy.printed = Changes(sy.observed)
       /\ sy.observed # <<>> => sy.last_status = sy.observed[Len(sy.observed)]
  /\ (sy.on_update = "main.on_update" /\ sy.observed = FiveStatuses) =>
       sy.invoked = 5 /\ sy.printed = 3

\* C8 witness: the five statuses were polled with main's callback and the
\* wait returned.
C8_Witness ==
  /\ sy.pc = "returned"
  /\ sy.on_update = "main.on_update"
  /\ sy.observed = FiveStatuses
  /\ sy.invoked = 5
  /\ sy.printed = 3

\* A wait on a job that never reaches a final status ended by the timeout,
\* with timeout_seconds = 2 * poll_seconds and poll_seconds > 0.
TimedOutAtTwice ==
  /\ sy.pc = "timeout"
  /\ sy.poll_seconds > 0
  /\ sy.timeout_seconds = 2 * sy.poll_seconds

\* C9 (as claimed): such a wait fails after exactly 2 polls.  Violated: the
\* loop runs while waited <= timeout_seconds, so a third poll is made at
\* waited = 2 * poll_seconds.
C9_Original == TimedOutAtTwice => sy.polls = 2

\* C9 (amended): such a wait fails with the timeout error after exactly 3
\* polls (at waited = 0, poll_seconds and 2 * poll_seconds), none of which saw
\* a final status, having slept 3 * poll_seconds; and the timeout error is
\* raised only when waited exceeds timeout_seconds.
C9_TimeoutAfterThreePolls ==
  /\ TimedOutAtTwice =>
       /\ sy.polls = 3
       /\ Len(sy.observed) = 3
       /\ sy.waited = 3 * sy.poll_seconds
       /\ \A i \in 1..3 : sy.observed[i] \notin {"COMPLETE", "FAILED", "STOPPED"}
  /\ sy.pc = "timeout" => sy.waited > sy.timeout_seconds /\ sy.result = None

\* C9 witness: the timeout of a wait with poll_seconds = 2, timeout_seconds = 4.
C9_Witness ==
  /\ TimedOutAtTwice
  /\ sy.poll_seconds = 2
  /\ sy.polls = 3

\* C10: wait_for_sync has returned exactly when the status of its last poll
\* is COMPLETE, FAILED or STOPPED; the polls before the last one all saw
\* STARTING, IN_PROGRESS or STOPPING (no poll follows a final status, and a
\* poll seeing one of these three is followed by the sleep); what it returns
\* is the job state the last poll fetched; otherwise nothing is returned.
C10_ReturnsOnTerminal ==
  LET n == Len(sy.observed)
      final == {"COMPLETE", "FAILED", "STOPPED"}
  IN /\ sy.pc = "returned" <=> (n > 0 /\ sy.observed[n] \in final)
     /\ \A i \in 1..(n - 1) : sy.observed[i] \in {"STARTING", "IN_PROGRESS", "STOPPING"}
     /\ sy.pc = "returned" => sy.result = sy.job /\ sy.result.status = sy.observed[n]
     /\ sy.pc # "returned" => sy.result = None
     /\ sy.pc = "sleep" => n > 0 /\ sy.observed[n] \notin final
     /\ sy.pc \in {"loop", "sleep", "returned", "timeout", "error"}

\* C10 witness: a wait that saw STOPPING, slept, and returned on STOPPED.
C10_Witness ==
  /\ sy.pc = "returned"
  /\ sy.observed = <<"IN_PROGRESS", "STOPPING", "STOPPED">>
  /\ sy.result.status = "STOPPED"
  /\ sy.waited = 2 * sy.poll_seconds
  /\ sy.poll_seconds > 0

\* The positions of a request in the log.
Pos(req) == {i \in 1..Len(calls) : calls[i].req = req}

\* Every request of R1 in the log comes before every request of R2.
Precedes(R1, R2) ==
  \A i \in {k \in 1..Len(calls) : calls[k].req \in R1},
     j \in {k \in 1..Len(calls) : calls[k].req \in R2} : i < j

\* C11: the sync process exits with status 0 exactly when wait_for_sync
\* returned a job with status COMPLETE and no failure reasons; FAILED,
\* STOPPED, COMPLETE with failure reasons, and a timed out wait give 1.
C11_SuccessClassification ==
  /\ sy.at # "exited" => sy.exit = None
  /\ sy.at = "exited" =>
       /\ sy.exit \in {0, 1}
       /\ sy.exit = 0 <=> /\ sy.pc = "returned"
                          /\ sy.result.status = "COMPLETE"
                          /\ sy.result.failureReasons = 0
       /\ sy.pc = "timeout" => sy.exit = 1
       /\ (sy.pc = "returned" /\ sy.result.status \in {"FAILED", "STOPPED"}) =>
            sy.exit = 1

\* C11 witness: the job ended COMPLETE with a failure reason and the process
\* exited with status 1.
C11_Witness ==
  /\ sy.at = "exited"
  /\ sy.pc = "returned"
  /\ sy.result.status = "COMPLETE"
  /\ sy.result.failureReasons = 1
  /\ sy.exit = 1

\* C12: from a fresh environment and without faults, provision_all does not
\* fail and returns a record with every identifier populated, the six
\* resources and the two documents then existing; sync_data_source returns
\* the job as the service reports it, COMPLETE when the ingestion completed;
\* the cleanup process run after it with the provisioned IDs returns six True
\* outcomes and documents_deleted = 2, exits with status 0 and leaves
\* nothing behind.
C12_EndToEnd ==
  /\ faults = 0 => pv[1].pc # "raised"
  /\ (faults = 0 /\ pv[1].pc = "returned") =>
       /\ \A f \in DOMAIN pv[1].result : pv[1].result[f] # None
       /\ pv[1].result.knowledge_base_id \in start.kbs \cup env.kbs \cup {KbId}
       /\ cl.pc = "idle" =>
            /\ env.kbs = {pv[1].result.knowledge_base_id}
            /\ env.dss = {<<pv[1].result.knowledge_base_id, pv[1].result.data_source_id>>}
            /\ env.vector_bucket /\ env.vector_index /\ env.document_bucket
            /\ env.role /\ env.inline = PolicyNames
            /\ env.objects = 2
  /\ sy.pc = "returned" =>
       /\ sy.result = sy.job
       /\ sy.job_id = sy.jobs[1]
       /\ settings.KNOWLEDGE_BASE_ID = pv[1].result.knowledge_base_id
       /\ settings.DATA_SOURCE_ID = pv[1].result.data_source_id
  /\ cl.pc # "idle" => sy.result.status = "COMPLETE"
  /\ (faults = 0 /\ cl.pc = "done") =>
       /\ \A k \in KindSet : cl.summary[k] = True
       /\ cl.summary.documents_deleted = 2
       /\ cl.failures = <<>>
       /\ cl.exit = 0
       /\ Empty(env)

\* C12 witness: the whole scenario ran without a fault: six resources
\* created, the two documents scanned by a COMPLETE job, everything deleted.
C12_Witness ==
  /\ faults = 0
  /\ cl.pc = "done"
  /\ \A r \in Creates : Issued(r)
  /\ sy.result.status = "COMPLETE" /\ sy.result.scanned = 2
  /\ \A k \in KindSet : cl.summary[k] = True
  /\ cl.summary.documents_deleted = 2
  /\ cl.exit = 0

\* The lookups of the resolution, which delete nothing.
Lookups == {"get_knowledge_base", "get_data_source"}

\* The provisioning step that establishes what a teardown request removes.
ProvisionedBy(req) ==
  CASE req \in {"update_data_source", "delete_data_source"} -> "data source"
    [] req = "delete_knowledge_base" -> "knowledge base"
    [] req \in {"delete_index", "delete_vector_bucket"} -> "S3 Vectors bucket and index"
    [] req \in {"list_objects_v2", "delete_objects"} -> "sample document upload"
    [] req = "delete_bucket" -> "document bucket"
    [] OTHER -> "Bedrock knowledge base role"

\* The teardown requests of the log, in order, without the lookups.
Teardown == SelectSeq(calls, LAMBDA c : c.req \notin Lookups)

\* A sequence of requests goes through the provisioning steps backwards: no
\* request is followed by one for a resource provisioned later.
Backwards(q) ==
  \A i \in 1..(Len(q) - 1) :
    StepIndex(ProvisionedBy(q[i].req)) >= StepIndex(ProvisionedBy(q[i + 1].req))

\* The environment holds the whole provisioned chain and the configuration
\* names its knowledge base and data source.
FullChain ==
  /\ start.kbs = {KbId} /\ start.dss = {<<KbId, DsId>>}
  /\ start.vector_bucket /\ start.vector_index
  /\ start.document_bucket /\ start.role
  /\ settings.KNOWLEDGE_BASE_ID = KbId /\ settings.DATA_SOURCE_ID = DsId

\* C13 (as claimed): cleanup_all issues its teardown requests in the exact
\* reverse of the order of the provisioning steps, the role before the vector
\* index.  Violated: the role is deleted last.
C13_Original == Backwards(Teardown)

\* C13 (amended): cleanup_all issues its teardown requests in the order data
\* source, knowledge base, vector index, vector bucket, documents, document
\* bucket, role: the reverse of the provisioning order for every resource but
\* the role, which is removed last, after every other request.
C13_TeardownOrder ==
  /\ Backwards(SelectSeq(Teardown, LAMBDA c : c.req \notin RoleRequests))
  /\ Precedes({"delete_index"}, {"delete_vector_bucket"})
  /\ \A i \in 1..(Len(calls) - 1) :
       calls[i].req \in RoleRequests => calls[i + 1].req \in RoleRequests
  /\ cl.pc = "done" => \E r \in RoleRequests : Issued(r)

\* C13 witness: a finished teardown of the whole chain; the role was deleted
\* after the document bucket, the vector index after the knowledge base.
C13_Witness ==
  /\ cl.pc = "done" /\ FullChain /\ faults = 0
  /\ \A k \in KindSet : cl.summary[k] = True
  /\ \A i \in Pos("delete_role"), j \in Pos("delete_bucket") : j < i
  /\ \A i \in Pos("delete_index"), j \in Pos("delete_knowledge_base") : j < i

\* C14: among the steps attempted, the data source delete comes before the
\* knowledge base delete, that before the vector index delete, that before
\* the vector bucket delete, and the purge before the document bucket delete;
\* so when the services reject a delete only for a dependent that still
\* exists (no injected fault), no delete is rejected, and the teardown of a
\* whole chain records six True outcomes and no failure.
C14_ReverseOrderTeardown ==
  /\ Precedes({"delete_data_source"}, {"delete_knowledge_base"})
  /\ Precedes({"delete_knowledge_base"}, {"delete_index"})
  /\ Precedes({"delete_index"}, {"delete_vector_bucket"})
  /\ Precedes({"list_objects_v2", "delete_objects"}, {"delete_bucket"})
  /\ faults = 0 =>
       \A i \in 1..Len(calls) : calls[i].ans \notin {"conflict", "notempty", "other"}
  /\ (cl.pc = "done" /\ faults = 0 /\ FullChain) =>
       /\ cl.failures = <<>>
       /\ \A k \in KindSet : cl.summary[k] = True
       /\ Empty(env)

\* C14 witness: the whole chain, with objects in the bucket and policies on
\* the role, torn down without a failure.
C14_Witness ==
  /\ cl.pc = "done" /\ FullChain /\ faults = 0
  /\ start.objects = MaxDocs /\ start.inline = PolicyNames
  /\ cl.summary.documents_deleted = MaxDocs
  /\ Answered("delete_vector_bucket", {"ok"})
  /\ Answered("delete_bucket", {"ok"})
  /\ cl.failures = <<>>

\* C15: the start requests carry pairwise different tokens and every
\* start_sync call that returned got a job of its own (nothing is
\* deduplicated); sync_data_source issues one start request, before any poll,
\* polls the job that request returned, with poll_seconds = 20 and
\* timeout_seconds = 3600 and no callback.
C15_FreshTokenPerStart ==
  LET S == Pos("start_ingestion_job") IN
  /\ \A i, j \in S : i # j => calls[i].arg # calls[j].arg
  /\ Cardinality(S) = Len(sy.sent)
  /\ \A i \in 1..Len(sy.sent) : \E j \in S : calls[j].arg = sy.sent[i]
  /\ Len(sy.jobs) = Cardinality({i \in S : calls[i].ans = "ok"})
  /\ Cardinality(Range(sy.jobs)) = Len(sy.jobs)
  /\ sy.caller = "sync_data_source" =>
       /\ Cardinality(S) <= 1
       /\ Precedes({"start_ingestion_job"}, {"get_ingestion_job"})
       /\ sy.polls > 0 => Cardinality(S) = 1 /\ sy.job_id = sy.jobs[1]
       /\ \A i \in Pos("get_ingestion_job") : calls[i].arg = sy.jobs[1]
       /\ sy.poll_seconds = 20 /\ sy.timeout_seconds = 3600
       /\ sy.on_update = None

\* C15 witness: start_sync was called MaxStarts times for one data source:
\* as many requests, tokens and jobs.
C15_Witness ==
  /\ sy.caller = "start_sync"
  /\ Len(sy.sent) = MaxStarts
  /\ Cardinality(Pos("start_ingestion_job")) = MaxStarts
  /\ Cardinality(Range(sy.tokens)) = MaxStarts
  /\ Cardinality(Range(sy.jobs)) = MaxStarts

\* C16: every data source delete request follows at once an update request
\* for the same data source, the one that sets its deletion policy to
\* RETAIN; once that update was accepted the policy is RETAIN.
C16_RetainBeforeDelete ==
  /\ \A i \in Pos("delete_data_source") :
       /\ i > 1
       /\ calls[i - 1].req = "update_data_source"
       /\ calls[i - 1].arg = calls[i].arg
  /\ Answered("update_data_source", {"ok"}) => env.retain

\* C16 witness: the data source was deleted after its policy became RETAIN.
C16_Witness ==
  /\ Answered("update_data_source", {"ok"})
  /\ Answered("delete_data_source", {"ok"})
  /\ env.retain
  /\ cl.summary.data_source_deleted = True

\* C17: whatever the RETAIN update is answered, the delete request is the
\* next request, and the outcome recorded for the data source is the one of
\* the delete's answer alone: True for success or conflict, unset for
\* not-found, False for any other error.
C17_DeleteAfterFailedUpdate ==
  \A i \in Pos("update_data_source") :
    IF i = Len(calls)
    THEN cl.pc = "delete_data_source" /\ cl.summary.data_source_deleted = None
    ELSE /\ calls[i + 1].req = "delete_data_source"
         /\ cl.summary.data_source_deleted =
              CASE calls[i + 1].ans \in {"ok", "conflict"} -> True
                [] calls[i + 1].ans = "notfound" -> None
                [] OTHER -> False

\* C17 witness: the update failed with a service error, the delete succeeded
\* and the data source is recorded as deleted.
C17_Witness ==
  /\ Answered("update_data_source", {"other"})
  /\ Answered("delete_data_source", {"ok"})
  /\ cl.summary.data_source_deleted = True
  /\ cl.pc = "done"
  /\ "data_source_deleted" \notin Range(cl.failures)

\* C18: when the knowledge base lookup reports it gone, no data source
\* lookup, update or delete and no knowledge base delete is issued, both
\* outcomes stay unset and are no failures, and the index, vector bucket,
\* document and role steps run.
C18_ShortCircuit ==
  Answered("get_knowledge_base", {"notfound"}) =>
    /\ \A r \in {"get_data_source", "update_data_source", "delete_data_source",
                 "delete_knowledge_base"} : ~Issued(r)
    /\ cl.summary.knowledge_base_deleted = None
    /\ cl.summary.data_source_deleted = None
    /\ cl.pc \notin {"resolve_ds", "update_data_source", "delete_data_source",
                     "delete_knowledge_base", "raised"}
    /\ cl.pc = "done" =>
         /\ \A r \in LaterSteps : Issued(r)
         /\ Range(cl.failures) \cap {"knowledge_base_deleted", "data_source_deleted"} = {}

\* C18 witness: the knowledge base was gone, the vector index and the role
\* were still deleted.
C18_Witness ==
  /\ cl.pc = "done"
  /\ Answered("get_knowledge_base", {"notfound"})
  /\ Answered("delete_index", {"ok"})
  /\ cl.summary.iam_role_deleted = True
  /\ cl.summary.knowledge_base_deleted = None
  /\ cl.exit = 0

\* C19: for each of the six kinds, a delete step answered not-found leaves
\* the outcome unset, and the kind is not among the failures.
C19_AbsentIsUnset ==
  LET absent ==
        {k \in KindSet :
           CASE k = "data_source_deleted" -> Answered("delete_data_source", {"notfound"})
             [] k = "knowledge_base_deleted" ->
                  Answered("delete_knowledge_base", {"notfound"})
             [] k = "vector_index_deleted" -> Answered("delete_index", {"notfound"})
             [] k = "vector_bucket_deleted" ->
                  Answered("delete_vector_bucket", {"notfound"})
             [] k = "document_bucket_deleted" -> Answered("delete_bucket", {"notfound"})
             [] OTHER -> \E r \in RoleRequests : Answered(r, {"notfound"})}
  IN /\ \A k \in absent : cl.summary[k] = None
     /\ cl.pc = "done" => Range(cl.failures) \cap absent = {}

\* C19 witness: the knowledge base vanished before its delete, and the index,
\* the buckets and the role were absent: five outcomes unset, no failure.
C19_Witness ==
  /\ cl.pc = "done"
  /\ Answered("delete_knowledge_base", {"notfound"})
  /\ Answered("delete_index", {"notfound"})
  /\ Answered("delete_vector_bucket", {"notfound"})
  /\ Answered("delete_bucket", {"notfound"})
  /\ Answered("list_role_policies", {"notfound"})
  /\ cl.summary.knowledge_base_deleted = None
  /\ cl.summary.iam_role_deleted = None
  /\ cl.failures = <<>>

\* The delete requests of the six kinds.
Deletes ==
  {"delete_data_source", "delete_knowledge_base", "delete_index",
   "delete_vector_bucket", "delete_bucket", "delete_role"}

\* C20: a conflict answered to the data source delete or to the knowledge
\* base delete is recorded as True, a conflict answered to the vector index
\* delete as False, and no delete request is issued twice.
C20_ConflictClassification ==
  /\ Answered("delete_data_source", {"conflict"}) =>
       cl.summary.data_source_deleted = True
  /\ Answered("delete_knowledge_base", {"conflict"}) =>
       cl.summary.knowledge_base_deleted = True
  /\ Answered("delete_index", {"conflict"}) => cl.summary.vector_index_deleted = False
  /\ \A r \in Deletes : Cardinality(Pos(r)) <= 1

\* C20 witness: the knowledge base delete was answered with a conflict and
\* the run ended without a failure.
C20_Witness ==
  /\ cl.pc = "done"
  /\ Answered("delete_knowledge_base", {"conflict"})
  /\ cl.summary.knowledge_base_deleted = True
  /\ cl.failures = <<>>
  /\ cl.exit = 0

\* The kinds whose delete step ended with bucket-not-empty or with a service
\* error that is neither not-found nor a conflict.
ErroredKinds ==
  {k \in KindSet :
     CASE k = "data_source_deleted" -> Answered("delete_data_source", {"other"})
       [] k = "knowledge_base_deleted" -> Answered("delete_knowledge_base", {"other"})
       [] k = "vector_index_deleted" -> Answered("delete_index", {"other"})
       [] k = "vector_bucket_deleted" -> Answered("delete_vector_bucket", {"other"})
       [] k = "document_bucket_deleted" -> Answered("delete_bucket", {"notempty", "other"})
       [] OTHER -> \E r \in RoleRequests : Answered(r, {"other"})}

\* C21: for each of the six kinds, a delete step that ended with
\* bucket-not-empty or with a service error other than not-found and conflict
\* has the outcome False, and the kind is among the failures main reads.
C21_ErrorIsFailure ==
  /\ \A k \in ErroredKinds : cl.summary[k] = False
  /\ cl.pc = "done" =>
       /\ ErroredKinds \subseteq Range(cl.failures)
       /\ ErroredKinds # {} => cl.exit = 1

\* C21 witness: the purge failed on its listing, so the document bucket
\* delete was answered bucket-not-empty: the bucket is the one failure.
C21_Witness ==
  /\ cl.pc = "done"
  /\ Answered("list_objects_v2", {"other"})
  /\ Answered("delete_bucket", {"notempty"})
  /\ cl.summary.document_bucket_deleted = False
  /\ cl.failures = <<"document_bucket_deleted">>
  /\ env.objects = MaxDocs

\* The number of keys of the batch deletes of a log that got one of the
\* given answers.
RECURSIVE KeysOf(_, _)
KeysOf(q, answers) ==
  IF q = <<>> THEN 0
  ELSE (IF Head(q).req = "delete_objects" /\ Head(q).ans \in answers
        THEN Head(q).arg ELSE 0) + KeysOf(Tail(q), answers)

\* C22 (as claimed): documents_deleted of the returned summary is the number
\* of objects the purge deleted, the keys of the batch deletes that succeeded,
\* whatever the list and batch delete requests were answered and whatever the
\* bucket delete after them was answered; no batch delete is issued for a
\* page without keys.  Violated: when a request of the purge is answered
\* NoSuchBucket after a batch delete succeeded, empty_document_bucket returns
\* 0 and the objects already deleted are not counted.
C22_CountsDeleted ==
  /\ \A i \in Pos("delete_objects") : calls[i].arg > 0
  /\ cl.pc \in {"delete_bucket", "list_role_policies", "main", "done"} =>
       cl.summary.documents_deleted = KeysOf(calls, {"ok"})

\* The requests of delete_iam_role that remove a policy from the role.
PolicyRemovals == {"delete_role_policy", "detach_role_policy"}

\* The delete-role request is issued only when every role request before it
\* succeeded, the deletes covering every inline policy the role held and the
\* detaches every managed policy attached to it.
RoleDeleteGuarded ==
  \A i \in Pos("delete_role") :
    /\ \A j \in 1..(i - 1) : calls[j].req \in RoleRequests => calls[j].ans = "ok"
    /\ {calls[j].arg : j \in Pos("delete_role_policy")} = start.inline
    /\ Cardinality(Pos("detach_role_policy")) = start.attached
    /\ Answered("list_role_policies", {"ok"})
    /\ Answered("list_attached_role_policies", {"ok"})

\* C23 (as claimed): delete-role is issued only after every listed inline
\* policy was deleted and every listed attachment detached, and when one of
\* these requests fails, delete-role is not issued and the role outcome is
\* False.  Violated: a removal answered NoSuchEntity leaves the outcome unset.
C23_Original ==
  /\ RoleDeleteGuarded
  /\ \A r \in PolicyRemovals :
       Answered(r, {"notfound", "conflict", "other"}) =>
         /\ ~Issued("delete_role")
         /\ cl.summary.iam_role_deleted = False

\* C23 (amended): delete-role is issued only after every listed inline policy
\* was deleted and every listed attachment detached; when one of these
\* requests fails, delete-role is not issued, and the role outcome is unset
\* when the failure is NoSuchEntity and False for any other error.
C23_RoleDeleteLast ==
  /\ RoleDeleteGuarded
  /\ \A r \in PolicyRemovals :
       /\ Answered(r, {"notfound", "conflict", "other"}) => ~Issued("delete_role")
       /\ Answered(r, {"notfound"}) => cl.summary.iam_role_deleted = None
       /\ Answered(r, {"conflict", "other"}) => cl.summary.iam_role_deleted = False

\* C23 witness: the three inline policies were deleted, the detach failed
\* with a service error: no delete-role request, the role outcome False.
C23_Witness ==
  /\ cl.pc = "done"
  /\ {calls[j].arg : j \in {i \in Pos("delete_role_policy") : calls[i].ans = "ok"}}
       = PolicyNames
  /\ Answered("detach_role_policy", {"other"})
  /\ ~Issued("delete_role")
  /\ cl.summary.iam_role_deleted = False
  /\ env.role

\* Run p has gone past its role step.
PastRoleStep(p) ==
  \/ pv[p].pc \in {"list_knowledge_bases", "create_knowledge_base",
                   "list_data_sources", "create_data_source", "returned"}
  \/ pv[p].pc = "raised" /\ pv[p].failed \in {"knowledge base", "data source"}

\* The names of the policies run p wrote, in the order of its requests.
PutsBy(p) ==
  LET q == SelectSeq(calls, LAMBDA c : c.by = p /\ c.req = "put_role_policy"
                                        /\ c.ans = "ok")
  IN [i \in 1..Len(q) |-> q[i].arg]

\* The role was removed by another actor after request number i.
RoleGoneAfter(i) ==
  \E j \in (i + 1)..Len(calls) :
    calls[j].req \in {"get_role", "create_role", "put_role_policy"}
      /\ calls[j].ans = "notfound"

\* C24: a run that went past its role step wrote the three inline policies,
\* each with the ARNs of that run (the document bucket's, the vector
\* bucket's and the vector index's), whether get_role found the role or it
\* was created; when provision_all has returned and nobody removed the role
\* since, the role holds the three policies and none with another document.
C24_PoliciesAlwaysWritten ==
  \A p \in Runs :
    PastRoleStep(p) =>
      /\ PutsBy(p) = PolicyOrder
      /\ Len(pv[p].policies) = Len(PolicyOrder)
      /\ \A i \in 1..Len(PolicyOrder) :
           pv[p].policies[i] =
             PolicyDocument(PolicyOrder[i],
                            [document_bucket_arn |-> DocumentBucketArn,
                             vector_bucket_arn |-> VectorBucketArn,
                             vector_index_arn |-> VectorIndexArn])
      /\ pv[p].document_bucket_arn = DocumentBucketArn
      /\ pv[p].vector_bucket_arn = VectorBucketArn
      /\ pv[p].vector_index_arn = VectorIndexArn
      /\ LET last == CHOOSE i \in 1..Len(calls) :
                       /\ calls[i].by = p /\ calls[i].req = "put_role_policy"
                       /\ calls[i].arg = PolicyOrder[Len(PolicyOrder)]
         IN (pv[p].pc = "returned" /\ ~RoleGoneAfter(last)) =>
              /\ env.role
              /\ env.inline = PolicyNames
              /\ env.stale = {}

\* C24 witness: the role existed with three altered policies; the run found
\* it, created no role, and returned with the three policies rewritten.
C24_Witness ==
  /\ pv[1].pc = "returned"
  /\ start.role /\ start.stale = PolicyNames
  /\ \E i \in 1..Len(calls) :
       calls[i].by = 1 /\ calls[i].req = "get_role" /\ calls[i].ans = "ok"
  /\ ~Issued("create_role")
  /\ PutsBy(1) = PolicyOrder
  /\ env.inline = PolicyNames /\ env.stale = {}

\* The lookup by name that precedes a create request.
LookupOf(create) ==
  CASE create = "create_bucket" -> "head_bucket"
    [] create = "create_vector_bucket" -> "get_vector_bucket"
    [] create = "create_index" -> "get_index"
    [] create = "create_role" -> "get_role"
    [] create = "create_knowledge_base" -> "list_knowledge_bases"
    [] OTHER -> "list_data_sources"

\* The lookups that list and match by name.
Listings == {"list_knowledge_bases", "list_data_sources"}

\* What a lookup reported: the resource absent, present, or an error.  A
\* listing reports absence by holding no resource of the name.
Reported(c) ==
  IF c.req \in Listings
  THEN IF c.ans # "ok" THEN "error"
       ELSE IF c.req = "list_knowledge_bases"
            THEN IF NamedKbs(env) = {} THEN "absent" ELSE "present"
       ELSE IF DsListing(env, c.arg) = <<>> THEN "absent" ELSE "present"
  ELSE CASE c.ans = "ok" -> "present"
         [] c.ans = "notfound" -> "absent"
         [] OTHER -> "error"

\* C25: in each of the six get-or-create steps the create request is issued
\* exactly when the lookup before it reported the resource absent: every
\* create request follows at once the lookup of its resource, which reported
\* absence; a run whose last request is such a lookup is about to create
\* when it reported absence, is past the create when it reported the
\* resource, and has raised, the step failed and no create issued, when the
\* lookup failed otherwise.
C25_CreateIffAbsent ==
  \A p \in Runs :
    LET q == CallsBy(p)
        n == Len(q)
    IN /\ \A i \in 1..n :
            q[i].req \in Creates =>
              /\ i > 1
              /\ q[i - 1].req = LookupOf(q[i].req)
              /\ q[i - 1].ans = IF q[i - 1].req \in Listings THEN "ok" ELSE "notfound"
       /\ pv[p].pc \in Creates =>
            /\ n > 0
            /\ q[n].req = LookupOf(pv[p].pc)
            /\ Reported(q[n]) = "absent"
       /\ (/\ n > 0
           /\ \E r \in Creates : q[n].req = LookupOf(r)
           /\ ~(n > 1 /\ q[n - 1].req \in Creates)) =>
            CASE Reported(q[n]) = "absent" ->
                   pv[p].pc \in Creates /\ q[n].req = LookupOf(pv[p].pc)
              [] Reported(q[n]) = "present" ->
                   /\ pv[p].pc \notin Creates
                   /\ pv[p].pc = "raised" => pv[p].failed # StepOf(q[n].req)
              [] OTHER ->
                   /\ pv[p].pc = "raised"
                   /\ pv[p].failed = StepOf(q[n].req)

\* C25 witness: the document bucket was absent and created, the vector
\* bucket's lookup failed with a service error: the run raised in that step
\* without a create_vector_bucket request.
C25_Witness ==
  /\ pv[1].pc = "raised"
  /\ pv[1].failed = "S3 Vectors bucket and index"
  /\ Answered("head_bucket", {"notfound"})
  /\ Answered("create_bucket", {"ok"})
  /\ Answered("get_vector_bucket", {"other"})
  /\ ~Issued("create_vector_bucket")
  /\ pv[2].pc = "head_bucket"

\* C26 (as claimed): with the knowledge base ID or the data source ID absent
\* from the configuration, sync's main and cleanup_all stop with a failure
\* before any request is issued.  Violated by cleanup_all, which goes on
\* with its teardown requests.
C26_Original ==
  /\ calls = <<>>
  /\ sy.at = "exited" => sy.exit = 1
  /\ cl.pc \notin {"idle", "start"} => cl.pc \in {"raised", "main", "done"}
  /\ cl.pc = "done" => cl.exit = 1

\* C26 (amended): with an ID absent, sync's main exits with status 1 before
\* any request is issued.  In cleanup_all the missing ID is found before the
\* lookup of its resource, which is not issued (with no knowledge base ID no
\* request is made for the knowledge base or the data source, with no data
\* source ID none for the data source), but cleanup_all is not stopped: the
\* outcome of the kind is False, the vector index, vector bucket, document
\* and role requests are issued, and main exits with status 1.
C26_MisconfigurationFailure ==
  /\ sy.at # "idle" =>
       /\ calls = <<>>
       /\ sy.at \in {"main", "exited"}
       /\ sy.at = "exited" => sy.exit = 1
  /\ settings.KNOWLEDGE_BASE_ID = None =>
       /\ \A r \in {"get_knowledge_base", "get_data_source", "update_data_source",
                    "delete_data_source", "delete_knowledge_base"} : ~Issued(r)
       /\ cl.pc \notin {"idle", "start"} => cl.summary.knowledge_base_deleted = False
  /\ settings.DATA_SOURCE_ID = None =>
       /\ \A r \in {"get_data_source", "update_data_source", "delete_data_source"} :
            ~Issued(r)
       /\ (Answered("get_knowledge_base", {"ok"}) /\ cl.pc # "resolve_ds") =>
            cl.summary.data_source_deleted = False
  /\ cl.pc = "done" =>
       /\ \A r \in LaterSteps : Issued(r)
       /\ (settings.KNOWLEDGE_BASE_ID = None \/ Answered("get_knowledge_base", {"ok"}))
            => cl.exit = 1

\* C26 witness: without a knowledge base ID the cleanup process deleted the
\* vector index and the role and exited with status 1.
C26_Witness ==
  /\ settings.KNOWLEDGE_BASE_ID = None
  /\ cl.pc = "done"
  /\ Answered("delete_index", {"ok"})
  /\ Answered("delete_role", {"ok"})
  /\ cl.summary.knowledge_base_deleted = False
  /\ cl.exit = 1

\* wait_for_sync has ended: it returned, raised TimeoutError, or a request
\* failed.
WaitEnded == sy.pc \in {"returned", "timeout", "error"}

\* C27: with poll_seconds > 0 wait_for_sync ends whatever statuses it
\* polls, by returning a job in a final status or by TimeoutError (by another
\* exception only when a request failed), after at most
\* timeout_seconds / poll_seconds + 1 polls; with poll_seconds = 0 no time is
\* counted, TimeoutError is never raised and the loop is entered again after
\* every poll of a status that is not final.
C27_WaitTerminates ==
  /\ [](sy.poll_seconds > 0 =>
          sy.polls <= (sy.timeout_seconds \div sy.poll_seconds) + 1)
  /\ [](sy.pc = "error" => Answered("get_ingestion_job", {"other"}))
  /\ [](sy.pc = "returned" => sy.result.status \in {"COMPLETE", "FAILED", "STOPPED"})
  /\ (sy.poll_seconds > 0) ~> WaitEnded
  /\ [](sy.poll_seconds = 0 =>
          /\ sy.waited = 0
          /\ sy.pc # "timeout"
          /\ sy.pc = "loop" => WhileCondition(sy.waited, sy.timeout_seconds))

\* C27 witness: with poll_seconds = 1 the wait polled timeout_seconds + 1
\* times, never saw a final status, and raised TimeoutError.
C27_Witness ==
  /\ sy.pc = "timeout"
  /\ sy.poll_seconds = 1
  /\ sy.timeout_seconds = MaxTimeout
  /\ sy.polls = MaxTimeout + 1
  /\ \A i \in 1..Len(sy.observed) : sy.observed[i] \notin {"COMPLETE", "FAILED", "STOPPED"}

\* The create requests of infra.py, one per resource kind.
CreateRequests ==
  {"create_bucket", "create_vector_bucket", "create_index", "create_role",
   "create_knowledge_base", "create_data_source"}

\* How many requests of a kind the runs have issued together.
IssuedCount(req) == Cardinality({i \in 1..Len(calls) : calls[i].req = req})

\* C28: when two provision_all invocations interleave against services that
\* hold none of the resources, at most one create request is issued per
\* resource kind across both invocations, in particular at most one
\* create_knowledge_base and at most one create_data_source.
C28_CreatedOnce == \A req \in CreateRequests : IssuedCount(req) <= 1

\* C29: without a knowledge base ID cleanup_all records
\* knowledge_base_deleted = False and leaves data_source_deleted unset, the
\* vector index, vector bucket, purge, document bucket and role steps are
\* still attempted and main exits with status 1; with a knowledge base that
\* resolves and no data source ID, data_source_deleted = False is recorded and
\* the knowledge base delete is still attempted.
C29_MissingIdRecorded ==
  /\ (settings.KNOWLEDGE_BASE_ID = None /\ cl.pc \notin {"idle", "start"}) =>
       /\ cl.summary.knowledge_base_deleted = False
       /\ cl.summary.data_source_deleted = None
       /\ cl.pc # "raised"
       /\ cl.pc = "done" =>
            /\ \A r \in LaterSteps : Issued(r)
            /\ cl.exit = 1
  /\ (settings.DATA_SOURCE_ID = None /\ Answered("get_knowledge_base", {"ok"})) =>
       /\ cl.pc # "resolve_ds" => cl.summary.data_source_deleted = False
       /\ cl.pc \in {"main", "done"} => Issued("delete_knowledge_base")
       /\ cl.pc = "done" => cl.exit = 1

\* C29 witness: the knowledge base resolved, no data source ID was
\* configured, the knowledge base was deleted all the same and the process
\* exited with status 1 for the data source alone.
C29_Witness ==
  /\ settings.KNOWLEDGE_BASE_ID # None
  /\ settings.DATA_SOURCE_ID = None
  /\ cl.pc = "done"
  /\ Answered("delete_knowledge_base", {"ok"})
  /\ cl.summary.data_source_deleted = False
  /\ cl.summary.knowledge_base_deleted = True
  /\ cl.failures = <<"data_source_deleted">>
  /\ cl.exit = 1

====
